---- MODULE Spec2Model ----
(***************************************************************************)
(* Model of the usb-device control-transfer engine (src/src/device.rs),    *)
(* its standard-request handler (src/src/device_standard_control.rs) and   *)
(* the class dispatch (src/src/class.rs).                                  *)
(*                                                                         *)
(* One poll() call is one step.  The device is threaded through the        *)
(* handlers as a record d, exactly in the order the code runs them; the    *)
(* fields of d are the variables of the module.                            *)
(***************************************************************************)
EXTENDS Integers, Sequences, FiniteSets, TLC

VARIABLES
    state,                  \* control.state
    request,                \* control.request : Option<Request>, <<>> or <<req>>
    buf,                    \* control.buf : [u8; 128], buf[k+1] is byte k; the
                            \* bytes after the last one ever written (all 0) are
                            \* not stored
    i,                      \* control.i
    len,                    \* control.len
    device_state,           \* UsbDevice.device_state
    pending_address,        \* UsbDevice.pending_address
    remote_wakeup_enabled,  \* UsbDevice.remote_wakeup_enabled
    stalled,                \* the bus: set of stalled endpoint addresses
    in_flight,              \* the bus: the packet written to endpoint-zero IN and not
                            \* yet collected by the host, <<>> or <<its length>>
    panicked,               \* poll() aborted (unwrap / panic! / slice out of range)
    ev,                     \* the PollResult handled by the last poll()
    bus_calls,              \* bus operations issued by the last poll(), in order
    class_calls,            \* class callbacks invoked by the last poll(), in order
    std_calls,              \* standard handler invocations of the last poll()
    xfer,                   \* the request of the most recent SETUP : <<>> or <<req>>
    deposited,              \* the count of the Ok(count) that answered it : <<>> or <<n>>
    in_packets,             \* lengths of the IN packets written since that SETUP
    prev_state,             \* control.state when the last poll() began
    handled,                \* what the last poll() handled, in order: the endpoint-zero
                            \* handlers it entered and the endpoints it broadcast
    out_bytes,              \* the bytes of the OUT data packets read since that SETUP
    in_bytes,               \* the bytes of the IN packets written since that SETUP
    classes,                \* the registered classes: what each writes as its
                            \* configuration descriptors and the strings it has
    tc,                     \* a TestClass: its State, its two bulk endpoints on
                            \* the bus and what the host sent and collected
    host,                   \* the enumerating host: where it is in its sequence
    cell                    \* the FreezableRefCell around the bus: its state word, who
                            \* holds a RefMut, and the bus inside it (the endpoints
                            \* allocated, the last endpoint I/O)

vars == <<state, request, buf, i, len, device_state, pending_address,
          remote_wakeup_enabled, stalled, in_flight, panicked, ev,
          bus_calls, class_calls, std_calls, xfer, deposited, in_packets,
          prev_state, handled, out_bytes, in_bytes, classes, tc, host, cell>>

---------------------------------------------------------------------------
(* Bounds of the model *)

NumClasses == 3

(* Program constants *)

BufLen == 128
MAX_ENDPOINTS == 16
max_packet_size_0 == 8
FEATURE_ENDPOINT_HALT == 0
FEATURE_DEVICE_REMOTE_WAKEUP == 1
CONFIGURATION_VALUE == 1
DEFAULT_ALTERNATE_SETTING == 0

Classes == 1..NumClasses

ControlState == {"Idle", "DataIn", "DataInZlp", "DataInLast", "StatusOut",
                 "DataOut", "StatusIn", "Error"}

UsbDeviceState == {"Default", "Addressed", "Configured"}

Bit(bitmap, n) == (bitmap \div (2 ^ n)) % 2 = 1

None == <<>>
Some(x) == <<x>>

Min(a, b) == IF a <= b THEN a ELSE b

(* let x = v in Body(x): v is computed once *)
With(v, Body(_)) == CHOOSE r \in {Body(x) : x \in {v}} : TRUE

(* u8 / u16 arithmetic *)
U8(x) == x % 256
Lo(x) == x % 256
Hi(x) == (x \div 256) % 256
(* (x as u8) & 0x8f *)
And8F_NoMask(x) == U8(x)

And8F(x) == (U8(x) % 16) + 128 * (U8(x) \div 128)

(* endpoint zero addresses *)
EP0_OUT == 0
EP0_IN == 128

---------------------------------------------------------------------------
(* utils::FreezableRefCell and the endpoint handles that borrow the bus through
   it.  Contexts are the pieces of code that run against the cell (the code
   that builds the device, the main loop, interrupt handlers). *)

FREE == 0
BORROW_MUT == 1
FROZEN == 2

NumContexts == 3
Contexts == 1..NumContexts

MaxEndpointIndex == 2
EndpointIndices == 1..MaxEndpointIndex

NoOp == [op |-> "new", who |-> 0, ok |-> TRUE]

(* FreezableRefCell::new.  outstanding counts the RefMut guards created and not
   dropped, frozen tells that a freeze has succeeded: both are there to observe
   the cell, the code has neither. *)
InitCell ==
    [state |-> FREE,
     guards |-> [k \in Contexts |-> FALSE],
     alive |-> [k \in Contexts |-> TRUE],
     outstanding |-> 0,
     frozen |-> FALSE,
     last |-> NoOp,
     value |-> [handles |-> {}, io |-> None]]

(* the outcome of the operation op of context k *)
CellOp(c, op, k, ok) == [c EXCEPT !.last = [op |-> op, who |-> k, ok |-> ok]]

(* panic! in context k: the context is gone.  Whether its guard is dropped
   depends on the build: unwinding runs RefMut::drop, aborting does not. *)
cell_panic(c, op, k, unwind) ==
    LET c1 == CellOp([c EXCEPT !.alive[k] = FALSE, !.guards[k] = FALSE], op, k, FALSE)
    IN  IF c.guards[k] /\ unwind
        THEN [c1 EXCEPT !.state = FREE, !.outstanding = @ - 1]
        ELSE c1

(* borrow_mut with a plain store in place of the compare-and-swap *)
borrow_mut_Unchecked(c, k, unwind) ==
    CellOp([c EXCEPT !.state = BORROW_MUT, !.guards[k] = TRUE,
                     !.outstanding = @ + 1], "borrow_mut", k, TRUE)

(* FreezableRefCell::borrow_mut *)
borrow_mut(c, k, unwind) ==
    IF c.state # FREE
    THEN cell_panic(c, "borrow_mut", k, unwind)
    ELSE CellOp([c EXCEPT !.state = BORROW_MUT, !.guards[k] = TRUE,
                        !.outstanding = @ + 1], "borrow_mut", k, TRUE)

(* freezing whatever the state of the cell is *)
freeze_Unchecked(c, k, unwind) ==
    CellOp([c EXCEPT !.state = FROZEN, !.frozen = TRUE], "freeze", k, TRUE)

(* FreezableRefCell::freeze *)
freeze(c, k, unwind) ==
    IF c.state # FREE
    THEN cell_panic(c, "freeze", k, unwind)
    ELSE CellOp([c EXCEPT !.state = FROZEN, !.frozen = TRUE], "freeze", k, TRUE)

(* FreezableRefCell::borrow *)
borrow(c, k, unwind) ==
    IF c.state # FROZEN
    THEN cell_panic(c, "borrow", k, unwind)
    ELSE CellOp(c, "borrow", k, TRUE)

(* RefMut::drop: stores FREE whatever the state is *)
RefMut_drop(c, k) ==
    CellOp([c EXCEPT !.state = FREE, !.guards[k] = FALSE, !.outstanding = @ - 1],
         "drop", k, TRUE)

(* mem::forget of a RefMut: the guard is gone and drop never runs *)
RefMut_forget(c, k) == CellOp([c EXCEPT !.guards[k] = FALSE], "forget", k, TRUE)

(* EndpointDirection as the direction bit of an endpoint address *)
DirectionBit(dir) == IF dir = "In" THEN 128 ELSE 0

(* the allocator's alloc::<D>(index): borrows the bus mutably, has the bus
   allocate the endpoint of direction D and wraps the address it returns in an
   Endpoint<D>; an address already allocated is refused *)
alloc(c, k, dir, index, unwind) ==
    LET c1 == borrow_mut(c, k, unwind)
        h == [dir |-> dir, address |-> DirectionBit(dir) + index]
    IN  IF ~c1.last.ok THEN c1
        ELSE IF \E g \in c.value.handles : g.address = h.address
        THEN CellOp(RefMut_drop(c1, k), "alloc", k, FALSE)
        ELSE CellOp([RefMut_drop(c1, k) EXCEPT !.value.handles = @ \cup {h}],
                  "alloc", k, TRUE)

(* a bus transfer issued through the handle h *)
BusIo(c, op, h) ==
    [c EXCEPT !.value.io = Some([op |-> op, addr |-> h.address, dir |-> h.dir])]

(* a write that drops the direction bit of the handle's address *)
Endpoint_write_IndexOnly(c, k, h, unwind) ==
    LET c1 == borrow(c, k, unwind)
    IN  IF c1.last.ok
        THEN CellOp(BusIo(c1, "write", [h EXCEPT !.address = @ % 128]), "write", k, TRUE)
        ELSE c1

(* Endpoint<In>::write *)
Endpoint_write(c, k, h, unwind) ==
    LET c1 == borrow(c, k, unwind)
    IN  IF c1.last.ok THEN CellOp(BusIo(c1, "write", h), "write", k, TRUE) ELSE c1

(* Endpoint<Out>::read *)
Endpoint_read(c, k, h, unwind) ==
    LET c1 == borrow(c, k, unwind)
    IN  IF c1.last.ok THEN CellOp(BusIo(c1, "read", h), "read", k, TRUE) ELSE c1

---------------------------------------------------------------------------
(* The device as a record *)

Dev == [state |-> state, request |-> request, buf |-> buf, i |-> i, len |-> len,
        device_state |-> device_state, pending_address |-> pending_address,
        remote_wakeup_enabled |-> remote_wakeup_enabled, stalled |-> stalled,
        in_flight |-> in_flight, panicked |-> panicked,
        bus_calls |-> bus_calls, class_calls |-> class_calls,
        std_calls |-> std_calls, xfer |-> xfer, deposited |-> deposited,
        in_packets |-> in_packets, handled |-> handled,
        out_bytes |-> out_bytes, in_bytes |-> in_bytes, classes |-> classes]

(* poll() enters a handler of endpoint zero or broadcasts an endpoint event *)
Handle(d, what, addr) ==
    [d EXCEPT !.handled = Append(@, [what |-> what, addr |-> addr])]

(* a bus operation issued by the device *)
BusCall(d, op, arg) == [d EXCEPT !.bus_calls = Append(@, <<op, arg>>)]

(* panic!: the poll aborts, nothing after it runs *)
Panic(d) == [d EXCEPT !.panicked = TRUE]

(* Endpoint<In>::write on endpoint zero: Busy while a previously written packet
   is still pending to be sent; w = "Err" is a bus that fails the write and
   w = "Busy" one that is not ready for a packet for a reason of its own *)
WriteResult(d, w) ==
    IF w = "Err" THEN "Err"
    ELSE IF w = "Busy" \/ d.in_flight # None THEN "Busy" ELSE "Ok"

(* the packet of n bytes handed to the bus *)
Written(d, n) ==
    [d EXCEPT !.in_flight = Some(n), !.in_packets = Append(@, n)]

(* how a write on endpoint-zero IN shows in bus_calls, by its result *)
WriteOp(wr) ==
    CASE wr = "Ok" -> "write" [] wr = "Busy" -> "write_busy" [] OTHER -> "write_err"

(* bus.set_stalled(addr, v) *)
set_stalled(d, addr, v) ==
    LET d1 == BusCall(d, IF v THEN "stall" ELSE "unstall", addr)
    IN  [d1 EXCEPT !.stalled = IF v THEN @ \cup {addr} ELSE @ \ {addr}]

(* copy the bytes of data into b at byte offset off; b is zero after its end *)
CopyInto(b, off, data) ==
    LET p == IF Len(b) >= off THEN b ELSE b \o [k \in 1..(off - Len(b)) |-> 0]
    IN  SubSeq(p, 1, off) \o data \o SubSeq(p, off + Len(data) + 1, Len(p))

(* byte k (from 0) of b *)
ByteAt(b, k) == IF k < Len(b) THEN b[k + 1] ELSE 0

(* the slice b[off .. off + n] *)
Bytes(b, off, n) == [k \in 1..n |-> ByteAt(b, off + k - 1)]

---------------------------------------------------------------------------
(* control::Request and its parser (USB 2.0 chapter 9 SETUP packet) *)

GET_STATUS == 0
CLEAR_FEATURE == 1
SET_FEATURE == 3
SET_ADDRESS == 5
GET_DESCRIPTOR == 6
SET_DESCRIPTOR == 7
GET_CONFIGURATION == 8
SET_CONFIGURATION == 9
GET_INTERFACE == 10
SET_INTERFACE == 11

RequestTypeOf(b) ==
    CASE (b \div 32) % 4 = 0 -> "Standard"
      [] (b \div 32) % 4 = 1 -> "Class"
      [] (b \div 32) % 4 = 2 -> "Vendor"
      [] OTHER -> "Reserved"

RecipientOf(b) ==
    CASE b % 32 = 0 -> "Device"
      [] b % 32 = 1 -> "Interface"
      [] b % 32 = 2 -> "Endpoint"
      [] b % 32 = 3 -> "Other"
      [] OTHER -> "Reserved"

(* control::Request::parse: an 8-byte little-endian SETUP packet *)
Parse(p) ==
    IF Len(p) # 8
    THEN [ok |-> FALSE]
    ELSE [ok |-> TRUE,
          req |-> [direction |-> IF p[1] >= 128 THEN "DeviceToHost" ELSE "HostToDevice",
                   request_type |-> RequestTypeOf(p[1]),
                   recipient |-> RecipientOf(p[1]),
                   request |-> p[2],
                   value |-> p[3] + 256 * p[4],
                   index |-> p[5] + 256 * p[6],
                   length |-> p[7] + 256 * p[8]]]

---------------------------------------------------------------------------
(* Control engine helpers *)

(* entering Error without stalling the endpoints *)
set_control_error_NoStall(d) == [d EXCEPT !.state = "Error"]

(* UsbDevice::set_control_error *)
set_control_error(d) ==
    LET d1 == [d EXCEPT !.state = "Error"]
        d2 == set_stalled(d1, EP0_OUT, TRUE)
    IN  set_stalled(d2, EP0_IN, TRUE)

(* the data stage ending with whatever packet came last *)
ChunkEndState_NeverZlp(count) == "DataInLast"

(* the state after the last chunk (device.rs 301-305): a full last packet asks
   for a zero-length packet *)
ChunkEndState(count) ==
    IF count = max_packet_size_0 THEN "DataInZlp" ELSE "DataInLast"

(* write_control_in_chunk moving on to the next chunk when the bus is busy *)
write_control_in_chunk_SkipOnBusy(d, w) ==
    LET count == Min(d.len - d.i, max_packet_size_0)
        wr == WriteResult(d, w)
    IN  IF d.len < d.i \/ d.i + count > BufLen
        THEN Panic(d)
        ELSE CASE wr = "Busy" -> [BusCall(d, WriteOp(wr), count) EXCEPT !.i = @ + count]
               [] wr = "Err"  -> Panic(BusCall(d, WriteOp(wr), count))
               [] OTHER ->
                    LET d1 == [Written(BusCall(d, WriteOp(wr), count), count) EXCEPT
                                  !.i = @ + count,
                                  !.in_bytes = @ \o Bytes(d.buf, d.i, count)]
                    IN  IF d1.i >= d1.len
                        THEN [d1 EXCEPT !.state = ChunkEndState(count)]
                        ELSE d1

(* UsbDevice::write_control_in_chunk *)
write_control_in_chunk(d, w) ==
    LET count == Min(d.len - d.i, max_packet_size_0)
        wr == WriteResult(d, w)
    IN  IF d.len < d.i \/ d.i + count > BufLen
        THEN Panic(d)                 \* usize underflow / slice out of range
        ELSE CASE wr = "Busy" -> BusCall(d, WriteOp(wr), count)
               [] wr = "Err"  -> Panic(BusCall(d, WriteOp(wr), count))
               [] OTHER ->
                    LET d1 == [Written(BusCall(d, WriteOp(wr), count), count) EXCEPT
                                  !.i = @ + count,
                                  !.in_bytes = @ \o Bytes(d.buf, d.i, count)]
                    IN  IF d1.i >= d1.len
                        THEN [d1 EXCEPT !.state = ChunkEndState(count)]
                        ELSE d1

(* the StatusIn arm reading the pending address without resetting it *)
StatusInComplete_KeepPending(d) ==
    LET addr == d.pending_address
        d2 == IF addr # 0
              THEN [BusCall(d, "set_device_address", addr) EXCEPT
                        !.device_state = "Addressed"]
              ELSE d
    IN  [d2 EXCEPT !.state = "Idle"]

(* the StatusIn arm of handle_control_in_complete *)
StatusInComplete(d) ==
    LET addr == d.pending_address
        d1 == [d EXCEPT !.pending_address = 0]
        d2 == IF addr # 0
              THEN [BusCall(d1, "set_device_address", addr) EXCEPT
                        !.device_state = "Addressed"]
              ELSE d1
    IN  [d2 EXCEPT !.state = "Idle"]

(* handle_control_in_complete ending the transfer without a status stage *)
handle_control_in_complete_NoStatus(d, w) ==
    CASE d.state = "DataIn" -> write_control_in_chunk(d, w)
      [] d.state = "DataInZlp" ->
            LET wr == WriteResult(d, w)
            IN  CASE wr = "Busy" -> BusCall(d, WriteOp(wr), 0)
                  [] wr = "Err"  -> Panic(BusCall(d, WriteOp(wr), 0))
                  [] OTHER -> [Written(BusCall(d, WriteOp(wr), 0), 0) EXCEPT
                                  !.state = "DataInLast"]
      [] d.state = "DataInLast" -> [d EXCEPT !.state = "Idle"]
      [] d.state = "StatusIn" -> StatusInComplete(d)
      [] OTHER -> set_control_error(d)

(* UsbDevice::handle_control_in_complete *)
handle_control_in_complete(d, w) ==
    CASE d.state = "DataIn" -> write_control_in_chunk(d, w)
      [] d.state = "DataInZlp" ->
            LET wr == WriteResult(d, w)
            IN  CASE wr = "Busy" -> BusCall(d, WriteOp(wr), 0)
                  [] wr = "Err"  -> Panic(BusCall(d, WriteOp(wr), 0))
                  [] OTHER -> [Written(BusCall(d, WriteOp(wr), 0), 0) EXCEPT
                                  !.state = "DataInLast"]
      [] d.state = "DataInLast" ->
            [set_stalled(d, EP0_OUT, FALSE) EXCEPT !.state = "StatusOut"]
      [] d.state = "StatusIn" -> StatusInComplete(d)
      [] OTHER -> set_control_error(d)

---------------------------------------------------------------------------
(* Device identity (UsbDeviceInfo) and descriptor constants *)

DESC_DEVICE == 1
DESC_CONFIGURATION == 2
DESC_STRING == 3
DESC_INTERFACE == 4
DESC_ENDPOINT == 5
ENGLISH_US == 1033

(* strings are sequences of character codes *)
Info == [device_class |-> 0, device_sub_class |-> 0, device_protocol |-> 0,
         max_packet_size_0 |-> max_packet_size_0,
         vendor_id |-> 5824, product_id |-> 1500, device_release |-> 16,
         manufacturer |-> <<77, 102>>, product |-> <<80, 114>>,
         serial_number |-> <<83, 110>>,
         self_powered |-> FALSE, supports_remote_wakeup |-> FALSE,
         max_power |-> 50]

---------------------------------------------------------------------------
(* DescriptorWriter: appends descriptors to a buffer, counts interfaces *)

writer_new(b) ==
    [buf |-> b, cap |-> BufLen, position |-> 0, num_interfaces |-> 0, ok |-> TRUE]

(* DescriptorWriter::write: [length, type, data...]; Err(BufferOverflow) if it does not fit *)
writer_write(w, dtype, data) ==
    IF ~w.ok THEN w
    ELSE IF w.position + 2 + Len(data) > w.cap \/ Len(data) + 2 > 255
         THEN [w EXCEPT !.ok = FALSE]
         ELSE [w EXCEPT !.buf = CopyInto(@, w.position, <<Len(data) + 2, dtype>> \o data),
                        !.position = @ + 2 + Len(data)]

(* DescriptorWriter::interface: an interface descriptor, counted *)
writer_interface(w, data) ==
    LET w1 == writer_write(w, DESC_INTERFACE, data)
    IN  IF w1.ok /\ w.ok THEN [w1 EXCEPT !.num_interfaces = @ + 1] ELSE w1

(* DescriptorWriter::insert: overwrite bytes in place *)
writer_insert(w, index, data) == [w EXCEPT !.buf = CopyInto(@, index, data)]

(* DescriptorWriter::write_string: UTF-16LE string descriptor *)
Utf16(s) == [k \in 1..(2 * Len(s)) |-> IF k % 2 = 1 THEN s[(k + 1) \div 2] ELSE 0]
writer_write_string(w, s) == writer_write(w, DESC_STRING, Utf16(s))

---------------------------------------------------------------------------
(* The registered classes (UsbClass implementations) *)

(* What class k writes in get_configuration_descriptors: a sequence of
   <<type, data>>.  Class 1: one interface, two endpoints and a 2-byte class
   descriptor (25 bytes); class 2: two interfaces with two endpoints each
   (46 bytes); class 3 keeps the trait's default and writes nothing; any
   further class: one interface, two endpoints (23 bytes), as TestClass. *)
IfaceDesc(n) == <<DESC_INTERFACE, <<n, DEFAULT_ALTERNATE_SETTING, 2, 255, 0, 0, 0>>>>
EpDesc(a) == <<DESC_ENDPOINT, <<a, 2, 64, 0, 0>>>>
ClassDescriptors(k) ==
    CASE k = 1 -> <<IfaceDesc(0), EpDesc(129), EpDesc(1), <<36, <<>>>>>>
      [] k = 2 -> <<IfaceDesc(1), EpDesc(130), EpDesc(2),
                    IfaceDesc(2), EpDesc(131), EpDesc(3)>>
      [] k = 3 -> <<>>
      [] OTHER -> <<IfaceDesc(k), EpDesc(128 + k + 1), EpDesc(k + 1)>>

RECURSIVE WriteItems(_, _, _)
WriteItems(w, items, n) ==
    IF n > Len(items) THEN w
    ELSE LET it == items[n]
             w1 == IF it[1] = DESC_INTERFACE
                   THEN writer_interface(w, it[2])
                   ELSE writer_write(w, it[1], it[2])
         IN  WriteItems(w1, items, n + 1)

(* The classes registered with the device: class k writes descriptors[k], or
   returns an error of its own if fails[k], and has a string for the indices
   strings[k].  TestClasses are the classes described above, each with one
   string of its own. *)
TestClasses ==
    [descriptors |-> [k \in Classes |-> ClassDescriptors(k)],
     fails |-> [k \in Classes |-> FALSE],
     strings |-> [k \in Classes |-> {3 + k}]]

(* UsbClass::get_configuration_descriptors of class k: Result<()>, the errors
   of the writer are propagated with ? *)
get_configuration_descriptors(d, k, w) ==
    IF d.classes.fails[k] THEN [w EXCEPT !.ok = FALSE]
    ELSE WriteItems(w, d.classes.descriptors[k], 1)

(* UsbClass::get_string of class k (as TestClass: ENGLISH_US only) *)
get_string(d, k, index, lang_id) ==
    IF index \in d.classes.strings[k] /\ lang_id = ENGLISH_US
    THEN Some(<<67, 48 + k>>) ELSE None

(* the bytes class k deposits when it answers control_in with Ok(n) *)
ClassPayload(k, n) ==
    [j \in 1..Min(n, BufLen) |->
        IF k = 2 /\ j <= 4 THEN <<222, 173, 190, 239>>[j] ELSE (16 * k + j) % 256]

Ignore == [tag |-> "Ignore", count |-> 0]
Err == [tag |-> "Err", count |-> 0]
Ok(n) == [tag |-> "Ok", count |-> n]

ClassCall(d, op, k, res) ==
    [d EXCEPT !.class_calls = Append(@, [op |-> op, cls |-> k, res |-> res, addr |-> 0])]

EndpointCall(d, op, k, addr) ==
    [d EXCEPT !.class_calls = Append(@, [op |-> op, cls |-> k, res |-> "", addr |-> addr])]

(* the class loop of handle_control_setup without its break *)
RECURSIVE control_in_classes_NoBreak(_, _, _)
control_in_classes_NoBreak(d, cin, k) ==
    IF k > NumClasses THEN [d |-> d, res |-> Ignore]
    ELSE LET r == cin[k]
             d1 == ClassCall(d, "control_in", k, r.tag)
             d2 == IF r.tag = "Ok"
                   THEN [d1 EXCEPT !.buf = CopyInto(@, 0, ClassPayload(k, r.count))]
                   ELSE d1
             rest == control_in_classes_NoBreak(d2, cin, k + 1)
         IN  IF k = NumClasses THEN [d |-> d2, res |-> r] ELSE rest

(* the class loop of handle_control_setup (device.rs 190-198), from class k on:
   cin[k] is what class k answers *)
RECURSIVE control_in_classes(_, _, _)
control_in_classes(d, cin, k) ==
    IF k > NumClasses THEN [d |-> d, res |-> Ignore]
    ELSE LET r == cin[k]
             d1 == ClassCall(d, "control_in", k, r.tag)
             d2 == IF r.tag = "Ok"
                   THEN [d1 EXCEPT !.buf = CopyInto(@, 0, ClassPayload(k, r.count))]
                   ELSE d1
         IN  IF r.tag # "Ignore"
             THEN [d |-> d2, res |-> r]
             ELSE control_in_classes(d2, cin, k + 1)

(* the class loop of complete_control_out (device.rs 317-323), from class k on *)
RECURSIVE control_out_classes(_, _, _)
control_out_classes(d, cout, k) ==
    IF k > NumClasses THEN [d |-> d, res |-> Ignore]
    ELSE LET r == cout[k]
             d1 == ClassCall(d, "control_out", k, r.tag)
         IN  IF r.tag # "Ignore"
             THEN [d |-> d1, res |-> r]
             ELSE control_out_classes(d1, cout, k + 1)

---------------------------------------------------------------------------
(* Standard-request handler (device_standard_control.rs) *)

StdCall(d, op, res) ==
    [d EXCEPT !.std_calls = Append(@, [op |-> op, res |-> res])]

(* get_descriptor_type_index *)
get_descriptor_type_index(value) == <<Hi(value), Lo(value)>>

(* SET_CONFIGURATION arm of standard_control_out: set_state(Configured) *)
SetConfiguration(d) == [d EXCEPT !.device_state = "Configured"]

(* SET_ADDRESS applying the address at once instead of latching it *)
SetAddress_Immediate(d, req) ==
    [BusCall(d, "set_device_address", U8(req.value)) EXCEPT
        !.device_state = "Addressed"]

(* SET_ADDRESS arm of standard_control_out *)
SetAddress(d, req) == [d EXCEPT !.pending_address = U8(req.value)]

(* the (recipient, request, value) combinations standard_control_out accepts *)
AcceptedOut(req) ==
    \/ req.recipient = "Device" /\ req.request = CLEAR_FEATURE
          /\ req.value = FEATURE_DEVICE_REMOTE_WAKEUP
    \/ req.recipient = "Endpoint" /\ req.request = CLEAR_FEATURE
          /\ req.value = FEATURE_ENDPOINT_HALT
    \/ req.recipient = "Device" /\ req.request = SET_FEATURE
          /\ req.value = FEATURE_DEVICE_REMOTE_WAKEUP
    \/ req.recipient = "Endpoint" /\ req.request = SET_FEATURE
          /\ req.value = FEATURE_ENDPOINT_HALT
    \/ req.recipient = "Device" /\ req.request = SET_ADDRESS
          /\ req.value >= 1 /\ req.value <= 127
    \/ req.recipient = "Device" /\ req.request = SET_CONFIGURATION
          /\ req.value = CONFIGURATION_VALUE
    \/ req.recipient = "Interface" /\ req.request = SET_INTERFACE
          /\ req.value = DEFAULT_ALTERNATE_SETTING

(* the SET_CONFIGURATION pattern of standard_control_out without its value *)
IsSetConfiguration_AnyValue(req) ==
    req.recipient = "Device" /\ req.request = SET_CONFIGURATION

(* the pattern (Recipient::Device, sr::SET_CONFIGURATION, CONFIGURATION_VALUE) *)
IsSetConfiguration(req) ==
    req.recipient = "Device" /\ req.request = SET_CONFIGURATION
        /\ req.value = CONFIGURATION_VALUE

(* UsbDevice::standard_control_out: the match on (recipient, request, value) *)
standard_control_out(d, req) ==
    CASE req.recipient = "Device" /\ req.request = CLEAR_FEATURE
            /\ req.value = FEATURE_DEVICE_REMOTE_WAKEUP ->
            [d |-> [d EXCEPT !.remote_wakeup_enabled = FALSE], res |-> Ok(0)]
      [] req.recipient = "Endpoint" /\ req.request = CLEAR_FEATURE
            /\ req.value = FEATURE_ENDPOINT_HALT ->
            [d |-> set_stalled(d, And8F(req.index), FALSE), res |-> Ok(0)]
      [] req.recipient = "Device" /\ req.request = SET_FEATURE
            /\ req.value = FEATURE_DEVICE_REMOTE_WAKEUP ->
            [d |-> [d EXCEPT !.remote_wakeup_enabled = TRUE], res |-> Ok(0)]
      [] req.recipient = "Endpoint" /\ req.request = SET_FEATURE
            /\ req.value = FEATURE_ENDPOINT_HALT ->
            [d |-> set_stalled(d, And8F(req.index), TRUE), res |-> Ok(0)]
      [] req.recipient = "Device" /\ req.request = SET_ADDRESS
            /\ req.value >= 1 /\ req.value <= 127 ->
            [d |-> SetAddress(d, req), res |-> Ok(0)]
      [] IsSetConfiguration(req) ->
            [d |-> SetConfiguration(d), res |-> Ok(0)]
      [] req.recipient = "Interface" /\ req.request = SET_INTERFACE
            /\ req.value = DEFAULT_ALTERNATE_SETTING ->
            [d |-> d, res |-> Ok(0)]
      [] OTHER -> [d |-> d, res |-> Err]

(* write a u16 status little-endian at buf[0..2] *)
(* a status word that keeps bit 0 only *)
PutStatus_BitZeroOnly(d, status) ==
    [d EXCEPT !.buf = CopyInto(@, 0, <<Lo(status) % 2, Hi(status)>>)]

PutStatus(d, status) ==
    [d EXCEPT !.buf = CopyInto(@, 0, <<Lo(status), Hi(status)>>)]

(* the class loop of the CONFIGURATION arm visiting the classes last to first *)
RECURSIVE ClassesContribute_Reversed(_, _, _)
ClassesContribute_Reversed(d, w, k) ==
    IF k > NumClasses THEN [d |-> d, w |-> w]
    ELSE LET c == NumClasses + 1 - k
             w1 == get_configuration_descriptors(d, c, w)
             d1 == ClassCall(d, "get_configuration_descriptors", c,
                             IF w1.ok THEN "Ok" ELSE "Err")
         IN  IF ~w1.ok THEN [d |-> Panic(d1), w |-> w1]
             ELSE ClassesContribute_Reversed(d1, w1, k + 1)

(* the class loop of the CONFIGURATION arm: each class contributes, .unwrap() *)
RECURSIVE ClassesContribute(_, _, _)
ClassesContribute(d, w, k) ==
    IF k > NumClasses THEN [d |-> d, w |-> w]
    ELSE LET w1 == get_configuration_descriptors(d, k, w)
             d1 == ClassCall(d, "get_configuration_descriptors", k,
                             IF w1.ok THEN "Ok" ELSE "Err")
         IN  IF ~w1.ok THEN [d |-> Panic(d1), w |-> w1]
             ELSE ClassesContribute(d1, w1, k + 1)

ConfigHeader ==
    <<0, 0, 0, CONFIGURATION_VALUE, 0,
      128 + (IF Info.self_powered THEN 64 ELSE 0)
          + (IF Info.supports_remote_wakeup THEN 32 ELSE 0),
      Info.max_power>>

(* the CONFIGURATION arm patching the placeholders before the classes contribute *)
ConfigurationDescriptor_PatchEarly(d, w) ==
    LET w1 == writer_write(w, DESC_CONFIGURATION, ConfigHeader)
        w2 == writer_insert(w1, 2, <<Lo(w1.position), Hi(w1.position)>>)
        w3 == writer_insert(w2, 4, <<w1.num_interfaces>>)
    IN  ClassesContribute(d, w3, 1)

(* the CONFIGURATION arm of handle_get_descriptor (lines 138-163) *)
ConfigurationDescriptor(d, w) ==
    With(ClassesContribute(d, writer_write(w, DESC_CONFIGURATION, ConfigHeader), 1),
         LAMBDA c :
    LET total_length == c.w.position
        num_interfaces == c.w.num_interfaces
        w2 == writer_insert(c.w, 2, <<Lo(total_length), Hi(total_length)>>)
        w3 == writer_insert(w2, 4, <<num_interfaces>>)
    IN  IF c.d.panicked THEN c ELSE [d |-> c.d, w |-> w3])

(* the class loop of the STRING arm consulting every class, the last Some wins *)
RECURSIVE ClassesString_NoStop(_, _, _, _)
ClassesString_NoStop(d, index, lang_id, k) ==
    IF k > NumClasses THEN [d |-> d, s |-> None]
    ELSE LET s == get_string(d, k, index, lang_id)
             d1 == ClassCall(d, "get_string", k, IF s = None THEN "None" ELSE "Some")
             rest == ClassesString_NoStop(d1, index, lang_id, k + 1)
         IN  IF rest.s # None \/ s = None THEN rest ELSE [d |-> rest.d, s |-> s]

(* the class loop of the STRING arm: filter_map(..).nth(0) stops at the first Some *)
RECURSIVE ClassesString(_, _, _, _)
ClassesString(d, index, lang_id, k) ==
    IF k > NumClasses THEN [d |-> d, s |-> None]
    ELSE LET s == get_string(d, k, index, lang_id)
             d1 == ClassCall(d, "get_string", k, IF s = None THEN "None" ELSE "Some")
         IN  IF s # None THEN [d |-> d1, s |-> s]
             ELSE ClassesString(d1, index, lang_id, k + 1)

DeviceDescriptorBody ==
    <<0, 2, Info.device_class, Info.device_sub_class, Info.device_protocol,
      Info.max_packet_size_0,
      Lo(Info.vendor_id), Hi(Info.vendor_id),
      Lo(Info.product_id), Hi(Info.product_id),
      Lo(Info.device_release), Hi(Info.device_release),
      1, 2, 3, 1>>

(* UsbDevice::handle_get_descriptor *)
handle_get_descriptor(d, req) ==
    LET dtype == get_descriptor_type_index(req.value)[1]
        index == get_descriptor_type_index(req.value)[2]
        writer == writer_new(d.buf)
        Done(dd, w) == IF dd.panicked THEN [d |-> dd, res |-> Err]
                       ELSE IF ~w.ok THEN [d |-> Panic(dd), res |-> Err]  \* .unwrap()
                       ELSE [d |-> [dd EXCEPT !.buf = w.buf], res |-> Ok(w.position)]
    IN  CASE dtype = DESC_DEVICE ->
                Done(d, writer_write(writer, DESC_DEVICE, DeviceDescriptorBody))
          [] dtype = DESC_CONFIGURATION ->
                With(ConfigurationDescriptor(d, writer), LAMBDA c : Done(c.d, c.w))
          [] dtype = DESC_STRING ->
                IF index = 0
                THEN Done(d, writer_write(writer, DESC_STRING,
                                          <<Lo(ENGLISH_US), Hi(ENGLISH_US)>>))
                ELSE With(CASE index = 1 -> [d |-> d, s |-> Some(Info.manufacturer)]
                            [] index = 2 -> [d |-> d, s |-> Some(Info.product)]
                            [] index = 3 -> [d |-> d, s |-> Some(Info.serial_number)]
                            [] OTHER -> ClassesString(d, index, req.index, 1),
                          LAMBDA r :
                          IF r.s # None
                          THEN Done(r.d, writer_write_string(writer, r.s[1]))
                          ELSE [d |-> r.d, res |-> Err])
          [] OTHER -> [d |-> d, res |-> Err]

(* UsbDevice::standard_control_in: the match on (recipient, request) *)
standard_control_in(d, req) ==
    CASE req.recipient = "Device" /\ req.request = GET_STATUS ->
            [d |-> PutStatus(d, (IF Info.self_powered THEN 1 ELSE 0)
                                + (IF d.remote_wakeup_enabled THEN 2 ELSE 0)),
             res |-> Ok(2)]
      [] req.recipient = "Interface" /\ req.request = GET_STATUS ->
            [d |-> PutStatus(d, 0), res |-> Ok(2)]
      [] req.recipient = "Endpoint" /\ req.request = GET_STATUS ->
            [d |-> PutStatus(BusCall(d, "is_stalled", And8F(req.index)),
                             IF And8F(req.index) \in d.stalled THEN 1 ELSE 0),
             res |-> Ok(2)]
      [] req.recipient = "Device" /\ req.request = GET_DESCRIPTOR ->
            handle_get_descriptor(d, req)
      [] req.recipient = "Device" /\ req.request = GET_CONFIGURATION ->
            [d |-> [d EXCEPT !.buf = CopyInto(@, 0, <<U8(CONFIGURATION_VALUE)>>)],
             res |-> Ok(1)]
      [] req.recipient = "Interface" /\ req.request = GET_INTERFACE ->
            [d |-> [d EXCEPT !.buf = CopyInto(@, 0, <<U8(DEFAULT_ALTERNATE_SETTING)>>)],
             res |-> Ok(1)]
      [] OTHER -> [d |-> d, res |-> Err]

---------------------------------------------------------------------------
(* Control engine (device.rs) *)

(* the fallback to the standard handler without the request-type test *)
FallsToStandard_AnyType(res, req) == res.tag = "Ignore"

(* the fallback condition (device.rs 200 and 325) *)
FallsToStandard(res, req) ==
    res.tag = "Ignore" /\ req.request_type = "Standard"

(* the status write of complete_control_out: control_in.write(&[]).ok() *)
StatusWrite(d, w) ==
    LET wr == WriteResult(d, w)
        d1 == BusCall(d, WriteOp(wr), 0)
    IN  IF wr = "Ok" THEN Written(d1, 0) ELSE d1

(* UsbDevice::complete_control_out; cout[k] is what class k answers *)
complete_control_out(d, cout, w) ==
    IF d.request = None THEN Panic(d)      \* control.request.take().unwrap()
    ELSE
    LET req == d.request[1]
    IN  With(control_out_classes([d EXCEPT !.request = None], cout, 1), LAMBDA c :
        With(IF FallsToStandard(c.res, req)
             THEN With(standard_control_out(c.d, req), LAMBDA r :
                       [d |-> StdCall(r.d, "standard_control_out", r.res.tag),
                        res |-> r.res])
             ELSE c, LAMBDA s :
        IF s.res.tag = "Ok"
        THEN [StatusWrite(s.d, w) EXCEPT !.state = "StatusIn"]
        ELSE set_control_error(s.d)))

(* the device-to-host arm of handle_control_setup (lines 190-213) *)
control_in_request(d, req, cin, w) ==
    With(control_in_classes(d, cin, 1), LAMBDA c :
    With(IF FallsToStandard(c.res, req)
         THEN With(standard_control_in(c.d, req), LAMBDA r :
                   [d |-> StdCall(r.d, "standard_control_in", r.res.tag),
                    res |-> r.res])
         ELSE c, LAMBDA s :
        IF s.d.panicked THEN s.d
        ELSE IF s.res.tag = "Ok"
        THEN write_control_in_chunk(
                 [s.d EXCEPT !.i = 0,
                             !.len = Min(s.res.count, req.length),
                             !.state = "DataIn",
                             !.deposited = Some(s.res.count)], w)
        ELSE set_control_error(s.d)))

(* UsbDevice::handle_control_setup; in.pkt is the result of control_out.read *)
handle_control_setup(d0, in) ==
    LET d == [d0 EXCEPT !.xfer = None, !.deposited = None, !.in_packets = <<>>,
                        !.out_bytes = <<>>, !.in_bytes = <<>>]
    IN
    IF ~in.pkt.ok THEN Panic(BusCall(d, "read_err", EP0_OUT))      \* .unwrap()
    ELSE
    With([BusCall(d, "read", EP0_OUT) EXCEPT !.buf = CopyInto(@, 0, in.pkt.data)],
         LAMBDA d1 :
    With(Parse(SubSeq(d1.buf, 1, Len(in.pkt.data))), LAMBDA parsed :
        IF ~parsed.ok THEN set_control_error(d1)
        ELSE
        LET req == parsed.req
            d2 == [d1 EXCEPT !.request = Some(req), !.xfer = Some(req)]
        IN  IF req.direction = "HostToDevice"
            THEN IF req.length > 0
                 THEN IF req.length > BufLen
                      THEN set_control_error(d2)
                      ELSE [d2 EXCEPT !.i = 0, !.len = req.length, !.state = "DataOut"]
                 ELSE complete_control_out([d2 EXCEPT !.len = 0], in.cout, in.w1)
            ELSE control_in_request(d2, req, in.cin, in.w1)))

(* handle_control_out reading every data packet to the start of the buffer *)
handle_control_out_AtStart(d, in) ==
    CASE d.state = "DataOut" ->
            IF d.i > BufLen THEN Panic(d)                       \* buf[i..]
            ELSE IF ~in.pkt.ok \/ Len(in.pkt.data) > BufLen - d.i
            THEN set_control_error(BusCall(d, "read_err", EP0_OUT))
            ELSE LET d1 == [BusCall(d, "read", EP0_OUT) EXCEPT
                               !.buf = CopyInto(@, 0, in.pkt.data),
                               !.i = @ + Len(in.pkt.data),
                               !.out_bytes = @ \o in.pkt.data]
                 IN  IF d1.i >= d1.len
                     THEN complete_control_out(d1, in.cout, in.w1)
                     ELSE d1
      [] d.state = "StatusOut" ->
            IF ~in.pkt.ok \/ Len(in.pkt.data) > 0
            THEN Panic(BusCall(d, "read_err", EP0_OUT))         \* read(&mut []).unwrap()
            ELSE [BusCall(d, "read", EP0_OUT) EXCEPT !.state = "Idle"]
      [] OTHER ->
            LET d1 == IF in.pkt.ok /\ Len(in.pkt.data) <= BufLen
                      THEN [BusCall(d, "read", EP0_OUT) EXCEPT
                               !.buf = CopyInto(@, 0, in.pkt.data)]
                      ELSE BusCall(d, "read_err", EP0_OUT)
            IN  set_control_error(d1)

(* UsbDevice::handle_control_out; in.pkt is the result of control_out.read *)
handle_control_out(d, in) ==
    CASE d.state = "DataOut" ->
            IF d.i > BufLen THEN Panic(d)                       \* buf[i..]
            ELSE IF ~in.pkt.ok \/ Len(in.pkt.data) > BufLen - d.i
            THEN set_control_error(BusCall(d, "read_err", EP0_OUT))
            ELSE LET d1 == [BusCall(d, "read", EP0_OUT) EXCEPT
                               !.buf = CopyInto(@, d.i, in.pkt.data),
                               !.i = @ + Len(in.pkt.data),
                               !.out_bytes = @ \o in.pkt.data]
                 IN  IF d1.i >= d1.len
                     THEN complete_control_out(d1, in.cout, in.w1)
                     ELSE d1
      [] d.state = "StatusOut" ->
            IF ~in.pkt.ok \/ Len(in.pkt.data) > 0
            THEN Panic(BusCall(d, "read_err", EP0_OUT))         \* read(&mut []).unwrap()
            ELSE [BusCall(d, "read", EP0_OUT) EXCEPT !.state = "Idle"]
      [] OTHER ->
            LET d1 == IF in.pkt.ok /\ Len(in.pkt.data) <= BufLen
                      THEN [BusCall(d, "read", EP0_OUT) EXCEPT
                               !.buf = CopyInto(@, 0, in.pkt.data)]
                      ELSE BusCall(d, "read_err", EP0_OUT)
            IN  set_control_error(d1)

(* bus.reset(): the peripheral forgets its endpoint halts and pending packets *)
bus_reset(d) == [BusCall(d, "reset", 0) EXCEPT !.stalled = {}, !.in_flight = None]

(* bus.poll(): reporting IN-complete on endpoint zero, the packet is gone *)
bus_poll(d, pr) ==
    [d EXCEPT !.in_flight = IF Bit(pr.ep_in_complete, 0) THEN None ELSE @]

(* the class loop of reset: cls.reset().unwrap() *)
RECURSIVE ClassesReset(_, _, _)
ClassesReset(d, rst, k) ==
    IF k > NumClasses THEN d
    ELSE LET d1 == ClassCall(d, "reset", k, rst[k])
         IN  IF rst[k] # "Ok" THEN Panic(d1) ELSE ClassesReset(d1, rst, k + 1)

(* reset that keeps a latched address *)
reset_KeepPending(d, rst) ==
    ClassesReset([bus_reset(d) EXCEPT !.device_state = "Default", !.state = "Idle"],
                 rst, 1)

(* UsbDevice::reset *)
reset(d, rst) ==
    LET d1 == bus_reset(d)
        d2 == [d1 EXCEPT !.device_state = "Default",
                         !.state = "Idle",
                         !.pending_address = 0]
    IN  ClassesReset(d2, rst, 1)

(* the broadcast of poll for endpoint n: both branches call endpoint_out *)
RECURSIVE ClassesEndpoint(_, _, _)
ClassesEndpoint(d, addr, k) ==
    IF k > NumClasses THEN d
    ELSE ClassesEndpoint(EndpointCall(d, "endpoint_out", k, addr), addr, k + 1)

RECURSIVE EndpointLoop(_, _, _)
EndpointLoop(d, pr, n) ==
    IF n >= MAX_ENDPOINTS THEN d
    ELSE LET d1 == IF Bit(pr.ep_out, n)
                   THEN ClassesEndpoint(Handle(d, "endpoint_out", n), n, 1)
                   ELSE d
             d2 == IF Bit(pr.ep_in_complete, n)
                   THEN ClassesEndpoint(Handle(d1, "endpoint_in_complete", n),
                                        n + 128, 1)
                   ELSE d1
         IN  EndpointLoop(d2, pr, n + 1)

(* poll without the return after reset(): the rest of the snapshot is handled *)
poll_ResetThenHandle(d0, pr, in) ==
    LET d == bus_poll([d0 EXCEPT !.bus_calls = <<>>, !.class_calls = <<>>,
                                 !.std_calls = <<>>, !.handled = <<>>], pr)
    IN  With(IF pr.reset THEN reset(d, in.rst) ELSE d, LAMBDA r :
        IF r.panicked THEN r ELSE
        With(IF pr.setup THEN handle_control_setup(Handle(r, "setup", 0), in)
             ELSE IF Bit(pr.ep_out, 0)
                  THEN handle_control_out(Handle(r, "out", 0), in)
             ELSE r, LAMBDA d1 :
        With(IF ~d1.panicked /\ Bit(pr.ep_in_complete, 0)
             THEN handle_control_in_complete(Handle(d1, "in_complete", 0), in.w2)
             ELSE d1, LAMBDA d2 :
        IF d2.panicked THEN d2 ELSE EndpointLoop(d2, pr, 1))))

(* UsbDevice::poll; pr is the PollResult of bus.poll() *)
poll(d0, pr, in) ==
    LET d == bus_poll([d0 EXCEPT !.bus_calls = <<>>, !.class_calls = <<>>,
                                 !.std_calls = <<>>, !.handled = <<>>], pr)
    IN  IF pr.reset THEN reset(d, in.rst)
        ELSE
        With(IF pr.setup THEN handle_control_setup(Handle(d, "setup", 0), in)
             ELSE IF Bit(pr.ep_out, 0)
                  THEN handle_control_out(Handle(d, "out", 0), in)
             ELSE d, LAMBDA d1 :
        With(IF ~d1.panicked /\ Bit(pr.ep_in_complete, 0)
             THEN handle_control_in_complete(Handle(d1, "in_complete", 0), in.w2)
             ELSE d1, LAMBDA d2 :
        IF d2.panicked THEN d2 ELSE EndpointLoop(d2, pr, 1)))

---------------------------------------------------------------------------
(* The host, the bus and the classes: the inputs of one poll() *)

(* an 8-byte SETUP packet *)
Setup(bm, req, value, index, length) ==
    <<bm, req, Lo(value), Hi(value), Lo(index), Hi(index), Lo(length), Hi(length)>>

PktSetAddress42 == Setup(0, SET_ADDRESS, 42, 0, 0)
PktSetAddress5 == Setup(0, SET_ADDRESS, 5, 0, 0)
PktSetAddress0 == Setup(0, SET_ADDRESS, 0, 0, 0)
PktSetAddress128 == Setup(0, SET_ADDRESS, 128, 0, 0)
PktSetConfiguration1 == Setup(0, SET_CONFIGURATION, 1, 0, 0)
PktSetConfiguration2 == Setup(0, SET_CONFIGURATION, 2, 0, 0)
PktSetRemoteWakeup == Setup(0, SET_FEATURE, FEATURE_DEVICE_REMOTE_WAKEUP, 0, 0)
PktClearRemoteWakeup == Setup(0, CLEAR_FEATURE, FEATURE_DEVICE_REMOTE_WAKEUP, 0, 0)
PktSetHalt == Setup(2, SET_FEATURE, FEATURE_ENDPOINT_HALT, 129, 0)
PktClearHalt == Setup(2, CLEAR_FEATURE, FEATURE_ENDPOINT_HALT, 129, 0)
PktSetInterface0 == Setup(1, SET_INTERFACE, 0, 0, 0)
PktSetInterface1 == Setup(1, SET_INTERFACE, 1, 0, 0)
PktSetDescriptor == Setup(0, SET_DESCRIPTOR, 256 * DESC_STRING, 0, 8)
PktVendorOut(length) == Setup(64, 3, 0, 0, length)
PktVendorIn(length) == Setup(192, 2, 0, 0, length)
PktGetStatus == Setup(128, GET_STATUS, 0, 0, 2)
PktGetDescriptor(dtype, index, length) ==
    Setup(128, GET_DESCRIPTOR, 256 * dtype + index, ENGLISH_US, length)
PktGetConfiguration == Setup(128, GET_CONFIGURATION, 0, 0, 1)
PktMalformed == <<0, 5, 42, 0>>

ReadOk(data) == [ok |-> TRUE, data |-> data]
ReadErr == [ok |-> FALSE, data |-> <<>>]
DataPacket(n) == [k \in 1..n |-> 170]

NoEvent == [reset |-> FALSE, setup |-> FALSE, ep_out |-> 0, ep_in_complete |-> 0]

(* class answers: the classes before k ignore, class k answers r, and every
   later class would accept if it were asked *)
AnswersIn(k, r) ==
    [c \in Classes |-> IF c < k THEN Ignore ELSE IF c = k THEN r ELSE Ok(4)]
AnswersOut(k, r) ==
    [c \in Classes |-> IF c < k THEN Ignore ELSE IF c = k THEN r ELSE Ok(0)]
AllIgnore == [c \in Classes |-> Ignore]
AllOk == [c \in Classes |-> "Ok"]

NoInput == [pkt |-> ReadErr, cin |-> AllIgnore, cout |-> AllIgnore,
            w1 |-> "Ok", w2 |-> "Ok", rst |-> AllOk]

---------------------------------------------------------------------------
(* TestClass (test_class.rs): a class with a 256-byte buffer that echoes on
   its bulk IN endpoint the messages it receives on its bulk OUT endpoint and
   serves vendor requests that store and read back the buffer.  The record
   holds its State, the two bulk endpoints as the bus has them (the OUT
   packet waiting to be read, the IN packet waiting to be collected, the
   events the bus has to report), the outcome of its last control callback,
   and, to observe it: msg the bytes read since the last short packet,
   expected the last complete message, echo the bytes written since then
   and packets their number, sent the number of packets the host has sent,
   overlapped whether the host sent a packet while an echo was going on,
   misrouted whether a completed IN packet was reported through endpoint_out,
   last the control request handled last, if nothing happened since, with
   the data it carried, written the data
   of the last accepted REQ_WRITE_BUFFER as long as nothing else wrote to
   buf, asked the number of requests, bulk packets and resets so far. *)

StateBufLen == 256
REQ_STORE_REQUEST == 1
REQ_READ_BUFFER == 2
REQ_WRITE_BUFFER == 3
REQ_UNKNOWN == 42

ep_bulk_in == [address |-> 129, max_packet_size |-> 64]
ep_bulk_out == [address |-> 1, max_packet_size |-> 64]

NoAnswer == [tag |-> "None", data |-> <<>>]

(* State::default() *)
DefaultState ==
    [buf |-> <<>>, len |-> 0, i |-> 0,
     expect_bulk_in_complete |-> FALSE, expect_bulk_out |-> FALSE]

InitTestClass ==
    [s |-> DefaultState, panicked |-> FALSE,
     out_pending |-> None, in_pending |-> None,
     out_event |-> FALSE, in_event |-> FALSE,
     answer |-> NoAnswer,
     msg |-> <<>>, expected |-> None, echo |-> <<>>, packets |-> 0, sent |-> 0,
     overlapped |-> FALSE, misrouted |-> FALSE,
     last |-> None, written |-> None, asked |-> 0]

TestPanic(t) == [t EXCEPT !.panicked = TRUE]

(* write_bulk_in with to_write bytes to write: the slice buf[i..i+to_write]
   and ep_bulk_in.write, WouldBlock while a packet is waiting *)
BulkWrite(t, to_write) ==
    IF t.s.i + to_write > StateBufLen THEN TestPanic(t)
    ELSE IF t.in_pending # None THEN t
    ELSE [t EXCEPT !.in_pending = Some(Bytes(t.s.buf, t.s.i, to_write)),
                   !.echo = @ \o Bytes(t.s.buf, t.s.i, to_write),
                   !.packets = @ + 1,
                   !.s.expect_bulk_in_complete = TRUE,
                   !.s.i = @ + to_write]

(* TestClass::write_bulk_in.  len - i with i > len overflows: a build with
   overflow checks panics (checked), one without wraps to a huge number, of
   which min takes the packet size. *)
write_bulk_in(t, write_empty, checked) ==
    IF t.s.i > t.s.len
    THEN IF checked THEN TestPanic(t)
         ELSE BulkWrite(t, ep_bulk_in.max_packet_size)
    ELSE LET to_write == Min(t.s.len - t.s.i, ep_bulk_in.max_packet_size)
         IN  IF to_write = 0 /\ ~write_empty
             THEN [t EXCEPT !.s.len = 0, !.s.i = 0]
             ELSE BulkWrite(t, to_write)

(* TestClass::poll: ep_bulk_out.read(&mut buf[i..]) *)
TestClass_poll(t, checked) ==
    IF t.out_pending = None THEN t                            \* WouldBlock
    ELSE LET data == t.out_pending[1]
             count == Len(data)
         IN  IF count > StateBufLen - t.s.i THEN TestPanic(t)      \* BufferOverflow
             ELSE IF ~t.s.expect_bulk_out THEN TestPanic(t)
             ELSE LET t1 == [t EXCEPT !.out_pending = None,
                                      !.s.buf = CopyInto(@, t.s.i, data),
                                      !.s.expect_bulk_out = FALSE,
                                      !.s.i = @ + count,
                                      !.msg = @ \o data,
                                      !.written = None]
                  IN  IF count < ep_bulk_out.max_packet_size
                      THEN write_bulk_in([t1 EXCEPT !.s.len = t1.s.i, !.s.i = 0,
                                                    !.expected = Some(t1.msg),
                                                    !.msg = <<>>, !.echo = <<>>,
                                                    !.packets = 0],
                                         count = 0, checked)
                      ELSE t1

(* TestClass::endpoint_in_complete *)
TestClass_endpoint_in_complete(t, addr, checked) ==
    IF addr # ep_bulk_in.address THEN t
    ELSE IF ~t.s.expect_bulk_in_complete THEN TestPanic(t)
    ELSE write_bulk_in([t EXCEPT !.s.expect_bulk_in_complete = FALSE], FALSE, checked)

(* TestClass::endpoint_out *)
TestClass_endpoint_out(t, addr) ==
    IF addr = ep_bulk_out.address THEN [t EXCEPT !.s.expect_bulk_out = TRUE] ELSE t

(* TestClass::reset *)
TestClass_reset(t) == [t EXCEPT !.s = DefaultState, !.written = None]

(* the discriminants of control::Direction, RequestType and Recipient *)
DirectionCode(dir) == IF dir = "DeviceToHost" THEN 128 ELSE 0

RequestTypeCode(ty) ==
    CASE ty = "Standard" -> 0
      [] ty = "Class" -> 1
      [] ty = "Vendor" -> 2
      [] OTHER -> 3

RecipientCode(r) ==
    CASE r = "Device" -> 0
      [] r = "Interface" -> 1
      [] r = "Endpoint" -> 2
      [] r = "Other" -> 3
      [] OTHER -> 4

(* request_type == Vendor && recipient == Device *)
VendorDevice(req) == req.request_type = "Vendor" /\ req.recipient = "Device"

(* xfer.accept(), xfer.accept_with(data), xfer.reject() *)
Accept(t, data) == [t EXCEPT !.answer = [tag |-> "Accepted", data |-> data]]

Reject(t) == [t EXCEPT !.answer = [tag |-> "Rejected", data |-> <<>>]]

(* TestClass::control_in *)
TestClass_control_in(t, req) ==
    IF ~VendorDevice(req) THEN t
    ELSE IF req.request = REQ_READ_BUFFER /\ req.length <= StateBufLen
         THEN Accept(t, Bytes(t.s.buf, 0, req.length))
         ELSE Reject(t)

(* control_out accepting REQ_WRITE_BUFFER without copying the data *)
TestClass_control_out_NoCopy(t, req, data) ==
    IF ~VendorDevice(req) THEN t
    ELSE IF req.request = REQ_STORE_REQUEST
         THEN Accept([t EXCEPT !.s.buf = CopyInto(@, 0,
                          <<DirectionCode(req.direction)
                                + 32 * RequestTypeCode(req.request_type)
                                + RecipientCode(req.recipient),
                            req.request,
                            Lo(req.value), Hi(req.value),
                            Lo(req.index), Hi(req.index),
                            Lo(req.length), Hi(req.length)>>),
                               !.written = None], <<>>)
         ELSE IF req.request = REQ_WRITE_BUFFER /\ Len(data) <= StateBufLen
         THEN IF Len(data) # req.length THEN TestPanic(t)
              ELSE Accept([t EXCEPT !.written = Some(data)], <<>>)
         ELSE Reject(t)

(* TestClass::control_out; the bits of direction, type and recipient do not
   overlap, so that | is + *)
TestClass_control_out(t, req, data) ==
    IF ~VendorDevice(req) THEN t
    ELSE IF req.request = REQ_STORE_REQUEST
         THEN Accept([t EXCEPT !.s.buf = CopyInto(@, 0,
                          <<DirectionCode(req.direction)
                                + 32 * RequestTypeCode(req.request_type)
                                + RecipientCode(req.recipient),
                            req.request,
                            Lo(req.value), Hi(req.value),
                            Lo(req.index), Hi(req.index),
                            Lo(req.length), Hi(req.length)>>),
                               !.written = None], <<>>)
         ELSE IF req.request = REQ_WRITE_BUFFER /\ Len(data) <= StateBufLen
         THEN IF Len(data) # req.length THEN TestPanic(t)
              ELSE Accept([t EXCEPT !.s.buf = CopyInto(@, 0, data),
                                    !.written = Some(data)], <<>>)
         ELSE Reject(t)

---------------------------------------------------------------------------
(* the host before enumeration: about to send SET_ADDRESS *)
HostInit == [pc |-> "Address", stage |-> "Setup", k |-> 0, left |-> 0]

InitDevice ==
    /\ state = "Idle"
    /\ request = None
    /\ buf = <<>>
    /\ i = 0
    /\ len = 0
    /\ device_state = "Default"
    /\ pending_address = 0
    /\ remote_wakeup_enabled = FALSE
    /\ stalled = {}
    /\ in_flight = None
    /\ panicked = FALSE
    /\ ev = NoEvent
    /\ bus_calls = <<>>
    /\ class_calls = <<>>
    /\ std_calls = <<>>
    /\ xfer = None
    /\ deposited = None
    /\ in_packets = <<>>
    /\ prev_state = "Idle"
    /\ handled = <<>>
    /\ out_bytes = <<>>
    /\ in_bytes = <<>>
    /\ host = HostInit
    /\ cell = InitCell
    /\ tc = InitTestClass

(* the device built with the classes of the test setup *)
Init == InitDevice /\ classes = TestClasses

InitDev ==
    [state |-> "Idle", request |-> None, buf |-> <<>>,
     i |-> 0, len |-> 0, device_state |-> "Default", pending_address |-> 0,
     remote_wakeup_enabled |-> FALSE, stalled |-> {}, in_flight |-> None,
     panicked |-> FALSE,
     bus_calls |-> <<>>, class_calls |-> <<>>, std_calls |-> <<>>,
     xfer |-> None, deposited |-> None, in_packets |-> <<>>, handled |-> <<>>,
     out_bytes |-> <<>>, in_bytes |-> <<>>, classes |-> TestClasses]

(* after an abort the device is gone: nothing of it can be observed but the abort *)
Aborted(d) ==
    IF d.panicked THEN [InitDev EXCEPT !.panicked = TRUE, !.classes = d.classes] ELSE d

(* one call of poll(): the bus reports pr, the handlers see the inputs in *)
Poll(pr, in) ==
    /\ ~panicked
    /\ Bit(pr.ep_in_complete, 0) => in_flight # None
    /\ \E d \in {Aborted(poll(Dev, pr, in))} :
           /\ state' = d.state
           /\ request' = d.request
           /\ buf' = d.buf
           /\ i' = d.i
           /\ len' = d.len
           /\ device_state' = d.device_state
           /\ pending_address' = d.pending_address
           /\ remote_wakeup_enabled' = d.remote_wakeup_enabled
           /\ stalled' = d.stalled
           /\ in_flight' = d.in_flight
           /\ panicked' = d.panicked
           /\ bus_calls' = d.bus_calls
           /\ class_calls' = d.class_calls
           /\ std_calls' = d.std_calls
           /\ xfer' = d.xfer
           /\ deposited' = d.deposited
           /\ in_packets' = d.in_packets
           /\ prev_state' = IF d.panicked THEN "Idle" ELSE state
           /\ handled' = d.handled
           /\ out_bytes' = d.out_bytes
           /\ in_bytes' = d.in_bytes
    /\ classes' = classes
    /\ tc' = tc
    /\ ev' = pr
    /\ cell' = cell

---------------------------------------------------------------------------
(* Actions, parametrised by what the host sends and the classes answer *)

ResetAnswers ==
    {AllOk} \cup {[c \in Classes |-> IF c = k THEN "Err" ELSE "Ok"] : k \in Classes}

(* the classes' answers to one request: all ignore, or class k answers *)
AnswersWith(counts) ==
    {[cin |-> AllIgnore, cout |-> AllIgnore]}
    \cup {[cin |-> AnswersIn(k, Err), cout |-> AnswersOut(k, Err)] : k \in Classes}
    \cup {[cin |-> AnswersIn(k, Ok(n)), cout |-> AnswersOut(k, Ok(0))] :
            k \in Classes, n \in counts}

ClassesIgnore == {[cin |-> AllIgnore, cout |-> AllIgnore]}

(* bus reset *)
PollReset ==
    \E rst \in ResetAnswers :
        /\ Poll([NoEvent EXCEPT !.reset = TRUE], [NoInput EXCEPT !.rst = rst])
        /\ host' = host

(* a SETUP on endpoint zero *)
PollSetupOf(reads, answers, writes) ==
    \E p \in reads, a \in answers, w \in writes :
        /\ Poll([NoEvent EXCEPT !.setup = TRUE],
                [NoInput EXCEPT !.pkt = p, !.cin = a.cin, !.cout = a.cout, !.w1 = w])
        /\ host' = host

(* a SETUP and an IN-complete on endpoint zero reported by the same poll *)
PollSetupInCompleteOf(reads, answers) ==
    \E p \in reads, a \in answers :
        /\ Poll([NoEvent EXCEPT !.setup = TRUE, !.ep_in_complete = 1],
                [NoInput EXCEPT !.pkt = p, !.cin = a.cin, !.cout = a.cout])
        /\ host' = host

(* an OUT packet on endpoint zero *)
PollOutOf(reads, answers, writes) ==
    \E p \in reads, a \in answers, w \in writes :
        /\ Poll([NoEvent EXCEPT !.ep_out = 1],
                [NoInput EXCEPT !.pkt = p, !.cout = a.cout, !.w1 = w])
        /\ host' = host

(* an IN-complete on endpoint zero *)
PollInCompleteOf(writes) ==
    \E w \in writes :
        /\ Poll([NoEvent EXCEPT !.ep_in_complete = 1], [NoInput EXCEPT !.w2 = w])
        /\ host' = host

---------------------------------------------------------------------------
(* Spec: the host sends standard requests in any order, at any stage; the
   classes ignore them *)

SetupPackets ==
    {PktSetAddress42, PktSetAddress0, PktSetAddress128,
     PktSetConfiguration1, PktSetConfiguration2,
     PktSetRemoteWakeup, PktSetInterface0, PktSetInterface1,
     PktGetStatus, PktGetDescriptor(DESC_DEVICE, 0, 8), PktSetDescriptor}

SetupReads == {ReadOk(p) : p \in SetupPackets} \cup {ReadErr}
OutReads == {ReadOk(DataPacket(0)), ReadOk(DataPacket(8))}

PollSetup == PollSetupOf(SetupReads, ClassesIgnore, {"Ok"})
PollSetupInComplete == PollSetupInCompleteOf(SetupReads, ClassesIgnore)
PollOut == PollOutOf(OutReads, ClassesIgnore, {"Ok"})
PollInComplete == PollInCompleteOf({"Ok", "Err"})

Next == PollReset \/ PollSetup \/ PollSetupInComplete \/ PollOut \/ PollInComplete

Spec == Init /\ [][Next]_vars

---------------------------------------------------------------------------
(* SpecDataIn: device-to-host vendor requests of several lengths, answered by
   a class with several counts, interrupted at any stage *)

Lengths == {0, 4, 8, 64}

DataInPackets == {PktVendorIn(n) : n \in Lengths}

DataInAnswers ==
    ClassesIgnore
    \cup {[cin |-> AnswersIn(k, Ok(n)), cout |-> AllIgnore] : k \in 1..2, n \in Lengths}

DataInSetup ==
    PollSetupOf({ReadOk(p) : p \in DataInPackets}, DataInAnswers, {"Ok"})
DataInSetupInComplete ==
    PollSetupInCompleteOf({ReadOk(p) : p \in DataInPackets}, DataInAnswers)
DataInOut == PollOutOf({ReadOk(DataPacket(0))}, ClassesIgnore, {"Ok"})
DataInInComplete == PollInCompleteOf({"Ok"})

NextDataIn == DataInSetup \/ DataInSetupInComplete \/ DataInOut \/ DataInInComplete

SpecDataIn == Init /\ [][NextDataIn]_vars

---------------------------------------------------------------------------
(* SpecDispatch: standard and vendor requests in both directions, each class
   in turn ignoring, accepting or refusing *)

DispatchPackets ==
    {PktVendorIn(4), PktVendorOut(0), PktVendorOut(8), PktGetStatus,
     PktSetRemoteWakeup, PktSetConfiguration2,
     PktGetDescriptor(DESC_INTERFACE, 0, 8)}

DispatchSetup ==
    PollSetupOf({ReadOk(p) : p \in DispatchPackets}, AnswersWith({4}), {"Ok"})
DispatchOut ==
    PollOutOf({ReadOk(DataPacket(0)), ReadOk(DataPacket(8))}, AnswersWith({4}), {"Ok"})
DispatchInComplete == PollInCompleteOf({"Ok"})

NextDispatch == DispatchSetup \/ DispatchOut \/ DispatchInComplete

SpecDispatch == Init /\ [][NextDispatch]_vars

---------------------------------------------------------------------------
(* SpecEnum: a host enumerating the device.  It sends SET_ADDRESS, fetches up
   to MaxDescriptors descriptors and sends SET_CONFIGURATION(1); it runs each
   transfer through its stages by what it receives: in a data stage it asks
   for packets until it has the bytes it asked for or gets a short packet,
   then sends the zero-length status packet. *)

MaxDescriptors == 3

Addresses == {1, 42, 127}

DescriptorRequests ==
    {PktGetDescriptor(DESC_DEVICE, 0, 8), PktGetDescriptor(DESC_DEVICE, 0, 18),
     PktGetDescriptor(DESC_CONFIGURATION, 0, 9),
     PktGetDescriptor(DESC_CONFIGURATION, 0, 255),
     PktGetDescriptor(DESC_STRING, 2, 255)}

HostPoll(pr, pkt) ==
    Poll(pr, [NoInput EXCEPT !.pkt = pkt])

EnumSetAddress ==
    /\ host.pc = "Address" /\ host.stage = "Setup"
    /\ \E v \in Addresses :
           HostPoll([NoEvent EXCEPT !.setup = TRUE],
                    ReadOk(Setup(0, SET_ADDRESS, v, 0, 0)))
    /\ host' = [host EXCEPT !.stage = "StatusIn"]

EnumGetDescriptor ==
    /\ host.pc = "Descriptors" /\ host.stage = "Setup"
    /\ host.k < MaxDescriptors
    /\ \E p \in DescriptorRequests :
           /\ HostPoll([NoEvent EXCEPT !.setup = TRUE], ReadOk(p))
           /\ host' = [host EXCEPT !.stage = "DataIn", !.k = @ + 1,
                                   !.left = Parse(p).req.length]

EnumSetConfiguration ==
    /\ host.pc = "Descriptors" /\ host.stage = "Setup"
    /\ HostPoll([NoEvent EXCEPT !.setup = TRUE], ReadOk(PktSetConfiguration1))
    /\ host' = [host EXCEPT !.pc = "Configure", !.stage = "StatusIn"]

(* the host collects the pending IN packet *)
EnumIn ==
    /\ host.stage \in {"DataIn", "StatusIn"}
    /\ in_flight # None
    /\ HostPoll([NoEvent EXCEPT !.ep_in_complete = 1], ReadErr)
    /\ host' =
          IF host.stage = "StatusIn"
          THEN [host EXCEPT !.stage = "Setup",
                            !.pc = IF @ = "Address" THEN "Descriptors" ELSE "Done"]
          ELSE IF in_flight[1] < max_packet_size_0 \/ host.left <= in_flight[1]
               THEN [host EXCEPT !.stage = "StatusOut", !.left = 0]
               ELSE [host EXCEPT !.left = @ - in_flight[1]]

(* the host sends the zero-length status packet of a device-to-host transfer *)
EnumStatusOut ==
    /\ host.stage = "StatusOut"
    /\ HostPoll([NoEvent EXCEPT !.ep_out = 1], ReadOk(DataPacket(0)))
    /\ host' = [host EXCEPT !.stage = "Setup"]

NextEnum ==
    \/ EnumSetAddress
    \/ EnumGetDescriptor
    \/ EnumSetConfiguration
    \/ EnumIn
    \/ EnumStatusOut

SpecEnum == Init /\ [][NextEnum]_vars

---------------------------------------------------------------------------
(* SpecErrors: what can fail during a control transfer.  SETUP packets that
   cannot be read or parsed, OUT packets that cannot be read or come in the
   wrong stage, IN writes the bus refuses, class handlers that answer Err. *)

ErrorPackets ==
    {PktMalformed, PktSetConfiguration2, PktSetRemoteWakeup, PktGetStatus,
     PktVendorOut(8), PktVendorIn(4)}

ErrorReads == {ReadOk(p) : p \in ErrorPackets} \cup {ReadErr}

ErrorOutReads == {ReadOk(DataPacket(0)), ReadOk(DataPacket(8)), ReadErr}

(* every class ignores, or the first class refuses, or the first class accepts *)
ErrorAnswers ==
    ClassesIgnore
    \cup {[cin |-> AnswersIn(1, Err), cout |-> AnswersOut(1, Err)],
          [cin |-> AnswersIn(1, Ok(4)), cout |-> AnswersOut(1, Ok(0))]}

NextErrors ==
    \/ PollReset
    \/ PollSetupOf(ErrorReads, ErrorAnswers, {"Ok", "Err"})
    \/ PollOutOf(ErrorOutReads, ErrorAnswers, {"Ok", "Err"})
    \/ PollInCompleteOf({"Ok", "Err"})

SpecErrors == Init /\ [][NextErrors]_vars

---------------------------------------------------------------------------
(* SpecBuffer: transfers that fill the control buffer.  Device-to-host
   requests a class answers with up to more bytes than the buffer holds, and
   host-to-device requests with data stages up to and beyond its size; the
   bus may answer a write with Busy. *)

BufferPackets ==
    {PktVendorIn(255), PktVendorOut(128), PktVendorOut(129)}

BufferCounts == {128, 200}

BufferAnswers ==
    {[cin |-> AnswersIn(1, Ok(n)), cout |-> AnswersOut(1, Ok(0))] : n \in BufferCounts}

BufferOutReads == {ReadOk(DataPacket(64)), ReadOk(DataPacket(128))}

NextBuffer ==
    \/ PollSetupOf({ReadOk(p) : p \in BufferPackets}, BufferAnswers, {"Ok", "Busy"})
    \/ PollSetupInCompleteOf({ReadOk(p) : p \in BufferPackets}, BufferAnswers)
    \/ PollOutOf(BufferOutReads, BufferAnswers, {"Ok", "Busy"})
    \/ PollInCompleteOf({"Ok", "Busy"})

SpecBuffer == Init /\ [][NextBuffer]_vars

---------------------------------------------------------------------------
(* SpecEndpoints: polls that report several events at once, on endpoint zero
   and on other endpoints.  ep_out and ep_in_complete are bitmaps, one bit per
   endpoint index. *)

EventBits == {0, 1, 2, 2 ^ (MAX_ENDPOINTS - 1) + 1}

EndpointsPackets == {PktVendorOut(8), PktGetStatus}

(* one poll: any combination of SETUP, OUT and IN-complete events *)
PollEvents ==
    \E su \in BOOLEAN, o \in EventBits, c \in EventBits,
       p \in {ReadOk(q) : q \in EndpointsPackets} \cup {ReadOk(DataPacket(8))} :
        /\ su \/ o # 0 \/ c # 0
        /\ su => p.data \in EndpointsPackets
        /\ ~su => p.data = DataPacket(8)
        /\ Poll([NoEvent EXCEPT !.setup = su, !.ep_out = o, !.ep_in_complete = c],
                [NoInput EXCEPT !.pkt = p])
        /\ host' = host

NextEndpoints == PollReset \/ PollEvents

SpecEndpoints == Init /\ [][NextEndpoints]_vars

---------------------------------------------------------------------------
(* SpecConfiguration: the host asks for the configuration and the status in
   every device state: before and after SET_ADDRESS, after SET_CONFIGURATION,
   after a bus reset.  No class claims the requests. *)

ConfigurationPackets ==
    {PktSetAddress5, PktSetConfiguration1, PktGetConfiguration, PktGetStatus}

NextConfiguration ==
    \/ PollReset
    \/ PollSetupOf({ReadOk(p) : p \in ConfigurationPackets}, ClassesIgnore, {"Ok"})
    \/ PollOutOf({ReadOk(DataPacket(0))}, ClassesIgnore, {"Ok"})
    \/ PollInCompleteOf({"Ok"})

SpecConfiguration == Init /\ [][NextConfiguration]_vars

---------------------------------------------------------------------------
(* SpecCell: contexts borrow, freeze and read the cell in any order, allocate
   endpoints through it and transfer on the handles they got.  The device
   itself stands still. *)

CellStep(c) ==
    /\ cell' = c
    /\ UNCHANGED <<state, request, buf, i, len, device_state, pending_address,
                   remote_wakeup_enabled, stalled, in_flight, panicked, ev,
                   bus_calls, class_calls, std_calls, xfer, deposited, in_packets,
                   prev_state, handled, out_bytes, in_bytes, classes, tc, host>>

NextCell ==
    \E k \in {n \in Contexts : cell.alive[n]}, unwind \in BOOLEAN :
        \/ ~cell.guards[k] /\ CellStep(borrow_mut(cell, k, unwind))
        \/ cell.guards[k] /\ CellStep(RefMut_drop(cell, k))
        \/ cell.guards[k] /\ CellStep(RefMut_forget(cell, k))
        \/ CellStep(freeze(cell, k, unwind))
        \/ CellStep(borrow(cell, k, unwind))
        \/ \E dir \in {"In", "Out"}, index \in EndpointIndices :
               CellStep(alloc(cell, k, dir, index, unwind))
        \/ \E h \in {g \in cell.value.handles : g.dir = "In"} :
               CellStep(Endpoint_write(cell, k, h, unwind))
        \/ \E h \in {g \in cell.value.handles : g.dir = "Out"} :
               CellStep(Endpoint_read(cell, k, h, unwind))

SpecCell == Init /\ [][NextCell]_vars

---------------------------------------------------------------------------
(* SpecDataOut: host-to-device vendor requests with no data, with a data stage
   of one or several packets, of the whole buffer, and of more than the
   buffer.  The host sends the data of the long request in packets of 64
   bytes, the data of the short ones in packets of 0, 5 or 8 bytes, which can
   fall short of the declared length, reach it or run past it. *)

DataOutLengths == {0, 12, BufLen, BufLen + 1}

MaxShortLength == 12

(* n bytes lo+1 .. lo+n *)
OutChunk(lo, n) == [k \in 1..n |-> lo + k]

DataOutReads ==
    IF state = "DataOut" /\ len > MaxShortLength
    THEN {ReadOk(OutChunk(0, 64))}
    ELSE {ReadOk(<<>>), ReadOk(OutChunk(0, 5)), ReadOk(OutChunk(10, 8))}

DataOutAnswers ==
    ClassesIgnore
    \cup {[cin |-> AllIgnore, cout |-> AnswersOut(2, Ok(0))]}

NextDataOut ==
    \/ PollSetupOf({ReadOk(PktVendorOut(n)) : n \in DataOutLengths},
                   DataOutAnswers, {"Ok"})
    \/ PollOutOf(DataOutReads, DataOutAnswers, {"Ok"})
    \/ PollInCompleteOf({"Ok"})

SpecDataOut == Init /\ [][NextDataOut]_vars

---------------------------------------------------------------------------
(* SpecComplete: a host that starts up to MaxTransfers transfers, at any time,
   also while the packet of the transfer before is still pending, and a bus
   that delivers what is due: the IN-complete of a pending packet and the
   zero-length OUT packet of the status stage.  FairComplete adds that what
   is due is delivered eventually. *)

MaxTransfers == 3

CompleteCounts == {0, 5, 8, 20}

CompletePackets == {PktVendorIn(8), PktVendorIn(64), PktVendorOut(0)}

CompleteAnswers ==
    {[cin |-> AnswersIn(1, Ok(n)), cout |-> AnswersOut(1, Ok(0))] : n \in CompleteCounts}

CompleteSetup ==
    /\ host.k < MaxTransfers
    /\ \E p \in CompletePackets, a \in CompleteAnswers :
           Poll([NoEvent EXCEPT !.setup = TRUE],
                [NoInput EXCEPT !.pkt = ReadOk(p), !.cin = a.cin, !.cout = a.cout])
    /\ host' = [host EXCEPT !.k = @ + 1]

(* the host has collected the pending IN packet *)
DeliverInComplete ==
    /\ in_flight # None
    /\ Poll([NoEvent EXCEPT !.ep_in_complete = 1], NoInput)
    /\ host' = host

(* the host sends the zero-length packet of the status stage *)
DeliverStatusOut ==
    /\ state = "StatusOut"
    /\ Poll([NoEvent EXCEPT !.ep_out = 1], [NoInput EXCEPT !.pkt = ReadOk(<<>>)])
    /\ host' = host

NextComplete == CompleteSetup \/ DeliverInComplete \/ DeliverStatusOut

SpecComplete == Init /\ [][NextComplete]_vars

FairComplete ==
    SpecComplete /\ WF_vars(DeliverInComplete) /\ WF_vars(DeliverStatusOut)

---------------------------------------------------------------------------
(* SpecIntegrity: device-to-host vendor requests answered by a class with
   fewer bytes than asked, as many, or more, on a bus that can refuse any
   write as Busy, interrupted at any stage. *)

IntegrityLengths == {16, 64}

IntegrityCounts == {0, 5, 16, 20}

IntegrityReads == {ReadOk(PktVendorIn(n)) : n \in IntegrityLengths}

IntegrityAnswers ==
    {[cin |-> AnswersIn(2, Ok(n)), cout |-> AllIgnore] : n \in IntegrityCounts}

NextIntegrity ==
    \/ PollSetupOf(IntegrityReads, IntegrityAnswers, {"Ok", "Busy"})
    \/ PollSetupInCompleteOf(IntegrityReads, IntegrityAnswers)
    \/ PollOutOf({ReadOk(DataPacket(0))}, ClassesIgnore, {"Ok"})
    \/ PollInCompleteOf({"Ok", "Busy"})

SpecIntegrity == Init /\ [][NextIntegrity]_vars

---------------------------------------------------------------------------
(* SpecFeatures: the feature requests and the status requests of the device
   and of endpoints, in any order, with bus resets in between.  The endpoint
   index comes with and without the direction bit and with bits that the mask
   0x8F removes; a class may claim a request before the standard handler. *)

PktTestMode == Setup(0, SET_FEATURE, 2, 0, 0)
PktSetHaltOf(index) == Setup(2, SET_FEATURE, FEATURE_ENDPOINT_HALT, index, 0)
PktClearHaltOf(index) == Setup(2, CLEAR_FEATURE, FEATURE_ENDPOINT_HALT, index, 0)
PktGetEndpointStatus(index) == Setup(130, GET_STATUS, 0, index, 2)

(* 0x81, 0x02 and 0x0191 *)
FeatureIndices == {129, 2, 401}

FeaturePackets ==
    {PktSetRemoteWakeup, PktClearRemoteWakeup, PktGetStatus, PktTestMode}
    \cup {PktSetHaltOf(x) : x \in FeatureIndices}
    \cup {PktClearHaltOf(x) : x \in FeatureIndices}
    \cup {PktGetEndpointStatus(x) : x \in FeatureIndices}

FeatureAnswers ==
    ClassesIgnore
    \cup {[cin |-> AnswersIn(1, Ok(2)), cout |-> AnswersOut(1, Ok(0))]}

NextFeatures ==
    \/ PollReset
    \/ PollSetupOf({ReadOk(p) : p \in FeaturePackets}, FeatureAnswers, {"Ok"})
    \/ PollInCompleteOf({"Ok"})

SpecFeatures == Init /\ [][NextFeatures]_vars

---------------------------------------------------------------------------
(* Properties *)

Range(s) == {s[n] : n \in 1..Len(s)}

IsSetAddress(r, v) ==
    /\ r.direction = "HostToDevice" /\ r.request_type = "Standard"
    /\ r.recipient = "Device" /\ r.request = SET_ADDRESS /\ r.value = v

(* C1: whenever a poll invokes bus.set_device_address(v), it does so once, the
   transfer in flight is an accepted SET_ADDRESS(v) whose zero-length status
   packet was written in an earlier poll, and the device is then Addressed. *)
C1_AddressAfterOwnStatus ==
    \A n \in 1..Len(bus_calls) :
        bus_calls[n][1] = "set_device_address" =>
            /\ \A m \in 1..Len(bus_calls) :
                   bus_calls[m][1] = "set_device_address" => m = n
            /\ ~ev.setup
            /\ xfer # None /\ IsSetAddress(xfer[1], bus_calls[n][2])
            /\ bus_calls[n][2] \in 1..127
            /\ in_packets = <<0>>
            /\ device_state = "Addressed"

(* C1, the part about abandoned transfers alone: the address is only applied
   while the transfer in flight is the SET_ADDRESS that latched it. *)
C1_NotForAnotherTransfer ==
    \A n \in 1..Len(bus_calls) :
        bus_calls[n][1] = "set_device_address" =>
            xfer # None /\ IsSetAddress(xfer[1], bus_calls[n][2])

ResetCalls == [k \in 1..NumClasses |-> [op |-> "reset", cls |-> k, res |-> "Ok", addr |-> 0]]

(* C4: a poll that reports a bus reset and returns leaves the control stage
   Idle, the pending address 0, the device state Default, and has invoked
   reset() on every class exactly once, in registration order. *)
C4_ResetLeavesIdle ==
    (ev.reset /\ ~panicked) =>
        /\ state = "Idle"
        /\ pending_address = 0
        /\ device_state = "Default"
        /\ class_calls = ResetCalls

(* a reset that cut a data stage short: index and length are left behind *)
C4_Witness ==
    /\ ev.reset /\ ~panicked /\ state = "Idle" /\ class_calls = ResetCalls
    /\ request # None /\ i < len

(* a reset that discarded a latched, uncommitted address *)
C4_WitnessPending ==
    /\ ev.reset /\ ~panicked /\ pending_address = 0
    /\ xfer # None /\ IsSetAddress(xfer[1], 42) /\ request = None
    /\ in_packets = <<0>>

(* C9: the device state changes only Default -> Addressed (when the address
   is applied), Addressed -> Configured (SET_CONFIGURATION accepted) and
   any -> Default (bus reset). *)
C9_StateTransitions ==
    [][(device_state' # device_state /\ ~panicked') =>
          \/ /\ device_state = "Default" /\ device_state' = "Addressed"
             /\ \E c \in Range(bus_calls') : c[1] = "set_device_address"
          \/ /\ device_state = "Addressed" /\ device_state' = "Configured"
             /\ xfer' = Some(Parse(PktSetConfiguration1).req)
          \/ /\ device_state' = "Default" /\ ev'.reset]_vars

(* a standard host-to-device request without data stage that
   standard_control_out does not accept *)
RejectedOut(r) ==
    /\ r.direction = "HostToDevice" /\ r.request_type = "Standard"
    /\ ~AcceptedOut(r)

(* the calls of the last poll that offered a control request to a class *)
DispatchCalls ==
    SelectSeq(class_calls, LAMBDA c : c.op \in {"control_in", "control_out"})

(* every class was offered the request and ignored it *)
AllIgnored ==
    /\ Len(DispatchCalls) = NumClasses
    /\ \A n \in 1..NumClasses : DispatchCalls[n].res = "Ignore"

(* C10: when a poll dispatches a standard host-to-device request outside the
   seven accepted combinations and no class claims it, the poll ends in Error
   with both endpoint-zero directions stalled and leaves the device state, the
   pending address and the remote-wakeup flag as they were. *)
C10_RejectedOutStalls ==
    [][(~panicked' /\ xfer' # None /\ RejectedOut(xfer'[1]) /\ AllIgnored') =>
          /\ state' = "Error"
          /\ {EP0_OUT, EP0_IN} \subseteq stalled'
          /\ device_state' = device_state
          /\ pending_address' = pending_address
          /\ remote_wakeup_enabled' = remote_wakeup_enabled]_vars

(* SET_CONFIGURATION(2) rejected while an address is latched, the device is
   Configured and remote wakeup is enabled *)
C10_Witness ==
    /\ ev.setup /\ xfer = Some(Parse(PktSetConfiguration2).req)
    /\ state = "Error" /\ pending_address = 42
    /\ remote_wakeup_enabled /\ device_state = "Configured"

(* a rejected request with a data stage: SET_DESCRIPTOR stalls when its data
   has arrived *)
C10_WitnessData ==
    /\ ev.ep_out = 1 /\ xfer = Some(Parse(PktSetDescriptor).req)
    /\ AllIgnored /\ state = "Error"

---------------------------------------------------------------------------
(* Properties of the data stage (SpecDataIn) *)

RECURSIVE Chunks(_)
(* L bytes cut into packets of at most max_packet_size_0 bytes *)
Chunks(L) ==
    IF L = 0 THEN <<>>
    ELSE <<Min(L, max_packet_size_0)>> \o Chunks(L - Min(L, max_packet_size_0))

(* the packets the ZLP rule asks for when L bytes answer a request for R: the
   non-empty packets and a zero-length one iff L mod M = 0 and L < R; no byte
   at all is one empty packet *)
RulePackets(L, R) ==
    IF L = 0 THEN <<0>>
    ELSE Chunks(L) \o (IF L % max_packet_size_0 = 0 /\ L < R THEN <<0>> ELSE <<>>)

(* a device-to-host transfer answered with L <= request.length bytes *)
AnsweredIn ==
    /\ ~panicked /\ xfer # None /\ deposited # None
    /\ deposited[1] <= xfer[1].length

(* C2: the engine is in DataInZlp only when L mod M = 0 and L < request.length,
   and once the data stage is over the packets written are the ceil(L/M)
   non-empty packets, followed by a zero-length packet iff L mod M = 0 and
   L < request.length. *)
C2_ZlpRule ==
    AnsweredIn =>
        /\ state = "DataInZlp" =>
               /\ deposited[1] % max_packet_size_0 = 0
               /\ deposited[1] < xfer[1].length
        /\ state \in {"DataInLast", "StatusOut"} =>
               in_packets = RulePackets(deposited[1], xfer[1].length)

(* C2 where the rule and the code agree: fewer bytes than requested *)
C2_ShortAnswer ==
    (AnsweredIn /\ deposited[1] < xfer[1].length) =>
        /\ state = "DataInZlp" => deposited[1] % max_packet_size_0 = 0
        /\ state \in {"DataInLast", "StatusOut"} =>
               in_packets = RulePackets(deposited[1], xfer[1].length)

(* C3: when the answer is exactly request.length bytes, a non-zero multiple of
   the packet size, the status stage is only entered after L/M full packets
   and one zero-length packet were written. *)
C3_FullLengthAnswer ==
    (AnsweredIn /\ state = "StatusOut" /\ deposited[1] = xfer[1].length
        /\ deposited[1] > 0 /\ deposited[1] % max_packet_size_0 = 0) =>
        in_packets = [n \in 1..(deposited[1] \div max_packet_size_0) |->
                         max_packet_size_0] \o <<0>>

(* scenario S5: 64 bytes asked, 64 answered, eight packets and a ZLP sent *)
C3_Witness ==
    /\ state = "StatusOut" /\ deposited = Some(64)
    /\ xfer = Some(Parse(PktVendorIn(64)).req)
    /\ in_packets = <<8, 8, 8, 8, 8, 8, 8, 8, 0>>

---------------------------------------------------------------------------
(* Properties of the dispatch (SpecDispatch) *)

(* C5: the classes are offered a control request in registration order, and
   no class is offered it after one that answered Ok or Err. *)
C5_ShortCircuit ==
    \A n \in 1..Len(DispatchCalls) :
        /\ DispatchCalls[n].cls = n
        /\ n < Len(DispatchCalls) => DispatchCalls[n].res = "Ignore"

(* the second class accepts a control_in, the third is not asked *)
C5_Witness ==
    /\ ev.setup /\ Len(DispatchCalls) = 2 /\ NumClasses > 2
    /\ DispatchCalls[1] = [op |-> "control_in", cls |-> 1, res |-> "Ignore", addr |-> 0]
    /\ DispatchCalls[2] = [op |-> "control_in", cls |-> 2, res |-> "Ok", addr |-> 0]
    /\ state = "DataInLast" /\ SubSeq(buf, 1, 4) = <<222, 173, 190, 239>>

(* the first class refuses a control_out at the end of the data stage *)
C5_WitnessOut ==
    /\ ev.ep_out = 1 /\ Len(DispatchCalls) = 1
    /\ DispatchCalls[1] = [op |-> "control_out", cls |-> 1, res |-> "Err", addr |-> 0]

(* a class or the standard handler answered Err *)
Refused ==
    \/ DispatchCalls # <<>> /\ DispatchCalls[Len(DispatchCalls)].res = "Err"
    \/ std_calls # <<>> /\ std_calls[1].res = "Err"

(* the writes on endpoint-zero IN attempted by the last poll *)
Writes == {c \in Range(bus_calls) : c[1] \in {"write", "write_busy", "write_err"}}

(* C6: the standard handler runs iff every class ignored the request and its
   type is Standard; when every class ignored a non-standard request, or a
   class or the standard handler answered Err, the poll ends in Error with
   both endpoint-zero directions stalled and has written no packet. *)
C6_FallbackAndStall ==
    /\ DispatchCalls = <<>> => std_calls = <<>>
    /\ (~panicked /\ DispatchCalls # <<>>) =>
          /\ std_calls # <<>> <=> (AllIgnored /\ xfer[1].request_type = "Standard")
          /\ ((AllIgnored /\ xfer[1].request_type # "Standard") \/ Refused) =>
                 /\ state = "Error"
                 /\ {EP0_OUT, EP0_IN} \subseteq stalled
                 /\ Writes = {}

(* a vendor request every class ignored, stalled at the end of its data stage *)
C6_Witness ==
    /\ ev.ep_out = 1 /\ AllIgnored /\ xfer = Some(Parse(PktVendorOut(8)).req)
    /\ std_calls = <<>> /\ state = "Error"

(* a standard request every class ignored and the standard handler refused *)
C6_WitnessStandard ==
    /\ ev.setup /\ AllIgnored
    /\ std_calls = <<[op |-> "standard_control_in", res |-> "Err"]>>
    /\ state = "Error"

---------------------------------------------------------------------------
(* Properties of the enumeration (SpecEnum) *)

(* C7: while the host is at SET_ADDRESS the device is Default, once that
   transfer is through it is Addressed, from SET_CONFIGURATION(1) on it is
   Configured, and when the host is done the engine is back in Idle. *)
C7_EnumerationConfigures ==
    ~panicked =>
        /\ host.pc = "Address" => device_state = "Default"
        /\ host.pc = "Descriptors" => device_state = "Addressed"
        /\ host.pc = "Configure" => device_state = "Configured"
        /\ host.pc = "Done" => device_state = "Configured" /\ state = "Idle"

(* the host is done after fetching MaxDescriptors descriptors *)
C7_Witness ==
    /\ host.pc = "Done" /\ host.k = MaxDescriptors
    /\ device_state = "Configured" /\ state = "Idle" /\ ~panicked

RECURSIVE SumOver(_, _)
SumOver(F(_), n) == IF n = 0 THEN 0 ELSE F(n) + SumOver(F, n - 1)

(* the bytes and the interface descriptors class k contributes *)
ClassBytes(k) ==
    SumOver(LAMBDA n : Len(ClassDescriptors(k)[n][2]) + 2, Len(ClassDescriptors(k)))
ClassInterfaces(k) ==
    Cardinality({n \in 1..Len(ClassDescriptors(k)) :
                    ClassDescriptors(k)[n][1] = DESC_INTERFACE})

RECURSIVE InterfacesIn(_, _, _)
(* the interface descriptors in b[pos..end), walking it by the bLength bytes;
   -1 when the walk does not end at end *)
InterfacesIn(b, pos, end) ==
    IF pos = end THEN 0
    ELSE IF pos > end \/ ByteAt(b, pos) < 2 THEN -1
    ELSE LET rest == InterfacesIn(b, pos + ByteAt(b, pos), end)
         IN  IF rest < 0 THEN -1
             ELSE rest + (IF ByteAt(b, pos + 1) = DESC_INTERFACE THEN 1 ELSE 0)

IsGetConfiguration(r) ==
    /\ r.direction = "DeviceToHost" /\ r.request_type = "Standard"
    /\ r.recipient = "Device" /\ r.request = GET_DESCRIPTOR
    /\ r.value \div 256 = DESC_CONFIGURATION

(* C8: after the SETUP of GET_DESCRIPTOR(CONFIGURATION), bytes 2 and 3 of the
   buffer hold, little-endian, the 9 header bytes plus every class's bytes,
   the buffer up to there is made of whole descriptors, byte 4 is the number
   of interface descriptors among them, the sum over the classes, and the
   handler returned that total as the transfer length. *)
C8_ConfigurationPatched ==
    (ev.setup /\ ~panicked /\ xfer # None /\ IsGetConfiguration(xfer[1])) =>
        LET total == ByteAt(buf, 2) + 256 * ByteAt(buf, 3)
        IN  /\ total = 9 + SumOver(ClassBytes, NumClasses)
            /\ ByteAt(buf, 4) = SumOver(ClassInterfaces, NumClasses)
            /\ ByteAt(buf, 4) = InterfacesIn(buf, 0, total)
            /\ deposited = Some(total)

(* scenario S6: 25 and 46 class bytes, 1 and 2 interfaces: total 80, count 3 *)
C8_Witness ==
    /\ ev.setup /\ xfer # None /\ IsGetConfiguration(xfer[1])
    /\ ClassBytes(1) = 25 /\ ClassBytes(2) = 46
    /\ ClassInterfaces(1) = 1 /\ ClassInterfaces(2) = 2
    /\ SubSeq(buf, 3, 5) = <<80, 0, 3>> /\ deposited = Some(80)

---------------------------------------------------------------------------
(* Properties of the error paths (SpecErrors) *)

BothStalled == {EP0_OUT, EP0_IN} \subseteq stalled

(* the last poll met a failure: a read or a write the bus refused, a SETUP
   packet that did not parse, or a handler that answered Err *)
Failed ==
    \/ \E c \in Range(bus_calls) : c[1] \in {"read_err", "write_err"}
    \/ ev.setup /\ xfer = None
    \/ Refused

(* C11: no poll that handles endpoint-zero events aborts, and one that met a
   failure during a control transfer ends in Error with both endpoint-zero
   directions stalled. *)
C11_NoErrorEscapes ==
    ~ev.reset =>
        /\ ~panicked
        /\ Failed => (state = "Error" /\ BothStalled)

(* C11, the failures the engine does turn into a stall: a poll that met a
   failure and returned ended in Error with both directions stalled, unless
   the failure was the refused write of a status packet *)
C11_ReturnedFailuresStall ==
    (~panicked /\ Failed /\ state # "StatusIn") => (state = "Error" /\ BothStalled)

(* C12: a poll that ends in Error leaves both endpoint-zero directions
   stalled, and from Error a poll that reports neither a SETUP nor a bus reset
   returns with the stage still Error and both directions still stalled. *)
C12_ErrorSticky ==
    [][/\ (state' = "Error" /\ ~panicked') => BothStalled'
       /\ (state = "Error" /\ ~ev'.setup /\ ~ev'.reset) =>
              (state' = "Error" /\ ~panicked' /\ BothStalled')]_vars

(* an OUT packet on endpoint zero arrived in Error and left it in Error *)
C12_Witness ==
    /\ prev_state = "Error" /\ state = "Error" /\ BothStalled
    /\ ev.ep_out = 1 /\ ~ev.setup /\ ev.ep_in_complete = 0

(* an IN completion on endpoint zero arrived in Error and left it in Error *)
C12_WitnessIn ==
    /\ prev_state = "Error" /\ state = "Error" /\ BothStalled
    /\ ev.ep_in_complete = 1 /\ ~ev.setup /\ ev.ep_out = 0

---------------------------------------------------------------------------
(* Properties of a SETUP that interrupts a transfer (Spec) *)

(* the device with no transfer behind it: the stage Idle and no packet of an
   earlier transfer pending on endpoint-zero IN *)
NoTransfer(d) == [d EXCEPT !.state = "Idle", !.in_flight = None]

(* what a SETUP leaves behind: the stage, the latched request, index and
   length, and the packets written while handling it *)
SetupOutcome(d) ==
    IF d.panicked THEN <<"aborted">>
    ELSE <<d.state, d.request, d.i, d.len, d.in_packets>>

(* C13: in every state, whatever the stage, a SETUP leaves the stage, the
   latched request, index and length and the packets written as it would on
   a device with no transfer behind it. *)
C13_SetupRestarts ==
    ~panicked =>
        \A p \in SetupReads :
            SetupOutcome(handle_control_setup(Dev, [NoInput EXCEPT !.pkt = p]))
            = SetupOutcome(handle_control_setup(NoTransfer(Dev),
                                                [NoInput EXCEPT !.pkt = p]))

(* C13, the stage alone: handle_control_setup does not look at control.state *)
C13_StageIgnored ==
    ~panicked =>
        \A p \in SetupReads :
            SetupOutcome(handle_control_setup(Dev, [NoInput EXCEPT !.pkt = p]))
            = SetupOutcome(handle_control_setup([Dev EXCEPT !.state = "Idle"],
                                                [NoInput EXCEPT !.pkt = p]))

---------------------------------------------------------------------------
(* Properties of the control buffer (SpecBuffer) *)

(* C14: in every state the index and the length of the control record are at
   most the size of the control buffer, and no poll aborted on a slice of it. *)
C14_BufferBound ==
    /\ ~panicked
    /\ i <= BufLen
    /\ len <= BufLen

(* C14, the index alone: i never exceeds the size of the buffer *)
C14_IndexBound == i <= BufLen

(* C14, the data stage of host-to-device requests: the length latched for a
   DataOut stage fits the buffer and the index never passes it *)
C14_DataOutBound ==
    state = "DataOut" => (len <= BufLen /\ i < len)

---------------------------------------------------------------------------
(* Properties of a Busy write on endpoint-zero IN (Spec, SpecBuffer) *)

(* a write of the last poll returned Busy *)
HasBusy == \E c \in Range(bus_calls) : c[1] = "write_busy"

(* the bytes handed to the bus since the last SETUP *)
BytesWritten == SumOver(LAMBDA n : in_packets[n], Len(in_packets))

(* C15: a poll in which a write on endpoint-zero IN returned Busy does not
   move the stage past the packet: with no SETUP and no OUT packet in that
   poll, stage, index and length are as before; the stage is StatusIn only
   if the status packet was handed to the bus; and in the data stage the
   index counts exactly the bytes handed to the bus. *)
C15_BusyLeavesTransfer ==
    [][(HasBusy' /\ ~panicked') =>
          /\ (~ev'.setup /\ ~Bit(ev'.ep_out, 0)) =>
                 (state' = state /\ i' = i /\ len' = len)
          /\ state' = "StatusIn" => in_packets' = <<0>>
          /\ state' \in {"DataIn", "DataInZlp", "DataInLast"} =>
                 BytesWritten' = i']_vars

(* C15 for the data stage: the same, for the data chunks and the terminating
   zero-length packet alone *)
C15_DataStageBusy ==
    [][(HasBusy' /\ ~panicked') =>
          /\ (~ev'.setup /\ ~Bit(ev'.ep_out, 0)) =>
                 (state' = state /\ i' = i /\ len' = len)
          /\ state' \in {"DataIn", "DataInZlp", "DataInLast"} =>
                 BytesWritten' = i']_vars

---------------------------------------------------------------------------
(* Properties of the dispatch inside one poll (SpecEndpoints) *)

(* handler or broadcast x came before y in the last poll *)
Before(x, y) ==
    \A m, n \in 1..Len(handled) :
        (handled[m].what \in x /\ handled[n].what \in y) => m < n

Handled(x) == \E n \in 1..Len(handled) : handled[n].what = x

Broadcasts == {"endpoint_out", "endpoint_in_complete"}

(* C16: a poll that returns has handled every endpoint-zero event of its
   snapshot, the SETUP before the OUT packet, the IN completion after both,
   and all of them before any broadcast of another endpoint's event. *)
C16_PollOrder ==
    (~panicked /\ ~ev.reset) =>
        /\ ev.setup => Handled("setup")
        /\ Bit(ev.ep_out, 0) => Handled("out")
        /\ Bit(ev.ep_in_complete, 0) => Handled("in_complete")
        /\ Before({"setup"}, {"out"})
        /\ Before({"setup", "out"}, {"in_complete"})
        /\ Before({"setup", "out", "in_complete"}, Broadcasts)

(* C16, the order alone, of what the poll did handle *)
C16_OrderOfHandled ==
    /\ Before({"setup"}, {"out"})
    /\ Before({"setup", "out"}, {"in_complete"})
    /\ Before({"setup", "out", "in_complete"}, Broadcasts)
    /\ (~panicked /\ ~ev.reset /\ ~ev.setup /\ Bit(ev.ep_out, 0)) => Handled("out")
    /\ (~panicked /\ ~ev.reset /\ ev.setup) => Handled("setup")
    /\ (~panicked /\ ~ev.reset /\ Bit(ev.ep_in_complete, 0)) => Handled("in_complete")

(* the callbacks of the last poll for endpoint events *)
EndpointCalls ==
    SelectSeq(class_calls, LAMBDA c : c.op \in {"endpoint_out", "endpoint_in_complete"})

(* callback op was invoked on class k for the endpoint of index n *)
Invoked(op, k, n) ==
    \E c \in Range(EndpointCalls) : c.op = op /\ c.cls = k /\ c.addr % 128 = n

(* C17: a poll that returns has invoked endpoint_out on every class for every
   index in 1..15 whose OUT bit is set and endpoint_in_complete on every class
   for every index whose IN-complete bit is set, and no endpoint callback for
   index 0 or for an index of 16 or more. *)
C17_EndpointDispatch ==
    (~panicked /\ ~ev.reset) =>
        /\ \A n \in 1..(MAX_ENDPOINTS - 1), k \in Classes :
              /\ Bit(ev.ep_out, n) => Invoked("endpoint_out", k, n)
              /\ Bit(ev.ep_in_complete, n) => Invoked("endpoint_in_complete", k, n)
        /\ \A c \in Range(EndpointCalls) : c.addr % 128 \in 1..(MAX_ENDPOINTS - 1)

(* C17 for the OUT events and the indices: endpoint_out reaches every class
   for every OUT bit, with the index as address, and for nothing else than
   the bits set *)
C17_OutDispatch ==
    (~panicked /\ ~ev.reset) =>
        /\ \A n \in 1..(MAX_ENDPOINTS - 1), k \in Classes :
              Bit(ev.ep_out, n) =>
                  \E c \in Range(EndpointCalls) :
                      c.op = "endpoint_out" /\ c.cls = k /\ c.addr = n
        /\ \A c \in Range(EndpointCalls) :
              /\ c.addr % 128 \in 1..(MAX_ENDPOINTS - 1)
              /\ IF c.addr < 128 THEN Bit(ev.ep_out, c.addr)
                 ELSE Bit(ev.ep_in_complete, c.addr - 128)

---------------------------------------------------------------------------
(* Properties of GET_CONFIGURATION (SpecConfiguration) *)

(* the last poll dispatched the SETUP of GET_CONFIGURATION *)
GetConfigurationDone ==
    /\ ev.setup /\ ~panicked
    /\ xfer = Some(Parse(PktGetConfiguration).req)

(* C18: after the SETUP of GET_CONFIGURATION the handler has returned one
   byte, and that byte is 1 when the device is Configured and 0 when it is
   Default or Addressed. *)
C18_GetConfiguration ==
    GetConfigurationDone =>
        /\ deposited = Some(1)
        /\ ByteAt(buf, 0) = IF device_state = "Configured" THEN 1 ELSE 0

(* C18, the length and the Configured state: one byte is returned in every
   device state, the transfer is one byte long, and in the Configured state
   the byte is 1 *)
C18_OneByte ==
    GetConfigurationDone =>
        /\ deposited = Some(1)
        /\ len = 1 /\ i <= 1
        /\ state \in {"DataIn", "DataInLast"}
        /\ device_state = "Configured" => ByteAt(buf, 0) = CONFIGURATION_VALUE

---------------------------------------------------------------------------
(* Properties of the freezable cell and the endpoint handles (SpecCell) *)

(* C19: a borrow_mut succeeds only when no freeze has succeeded and no RefMut
   is outstanding; a freeze succeeds only when no RefMut is outstanding; a
   shared borrow succeeds only after a freeze; and once a freeze has succeeded
   the cell stays frozen with no RefMut outstanding, and every later
   borrow_mut or freeze fails and ends its context. *)
C19_TwoPhase ==
    [][LET op == cell'.last
       IN  /\ (op.op \in {"borrow_mut", "alloc"} /\ op.ok) =>
                  ~cell.frozen /\ cell.outstanding = 0
           /\ (op.op = "freeze" /\ op.ok) => cell.outstanding = 0
           /\ (op.op \in {"borrow", "read", "write"} /\ op.ok) => cell.frozen
           /\ cell.frozen =>
                  /\ cell'.frozen /\ cell'.state = FROZEN
                  /\ cell'.outstanding = 0
                  /\ \A k \in Contexts : ~cell'.guards[k]
                  /\ op.op \in {"borrow_mut", "freeze", "alloc"} =>
                         ~op.ok /\ ~cell'.alive[op.who]]_vars

(* a borrow_mut that failed on the frozen cell after endpoints were allocated *)
C19_Witness ==
    /\ cell.frozen /\ cell.state = FROZEN
    /\ cell.last.op = "borrow_mut" /\ ~cell.last.ok
    /\ cell.value.handles # {}

(* a freeze that failed while a RefMut was outstanding *)
C19_WitnessBorrowed ==
    /\ cell.last.op = "freeze" /\ ~cell.last.ok
    /\ cell.outstanding = 1 /\ ~cell.frozen

(* a second freeze that failed *)
C19_WitnessFrozenTwice ==
    /\ cell.last.op = "freeze" /\ ~cell.last.ok /\ cell.frozen

(* C20: every bus read issued through a handle is on an OUT address, through
   an OUT handle, every bus write on an IN address, through an IN handle, and
   the address is the one the handle was allocated with. *)
C20_DirectionTyping ==
    cell.value.io # None =>
        LET t == cell.value.io[1]
        IN  /\ t.op = "read" => t.addr < 128 /\ t.dir = "Out"
            /\ t.op = "write" => t.addr >= 128 /\ t.dir = "In"
            /\ [dir |-> t.dir, address |-> t.addr] \in cell.value.handles

(* a write on the IN endpoint 1 while the OUT endpoint 1 is allocated too *)
C20_Witness ==
    /\ cell.value.io = Some([op |-> "write", addr |-> 129, dir |-> "In"])
    /\ [dir |-> "Out", address |-> 1] \in cell.value.handles

(* a read on the OUT endpoint 2 while the IN endpoint 2 is allocated too *)
C20_WitnessRead ==
    /\ cell.value.io = Some([op |-> "read", addr |-> 2, dir |-> "Out"])
    /\ [dir |-> "In", address |-> 130] \in cell.value.handles

---------------------------------------------------------------------------
(* Properties of the host-to-device data stage (SpecDataOut) *)

(* the control_out callbacks of the last poll *)
OutHandlerCalls == SelectSeq(class_calls, LAMBDA c : c.op = "control_out")

(* the last poll offered the request to the handlers: classes are asked in
   order from the first, each at most once *)
OutHandlersInvoked ==
    /\ OutHandlerCalls # <<>>
    /\ \A n \in 1..Len(OutHandlerCalls) : OutHandlerCalls[n].cls = n

NoHandlerInvoked == class_calls = <<>> /\ std_calls = <<>>

(* C21: a host-to-device SETUP with 0 < length <= 128 enters DataOut at index
   0 and invokes no handler; one with length > 128 invokes none and ends in
   Error with both directions stalled; one with length 0 invokes the handlers
   in the SETUP poll with no data.  In DataOut every OUT packet read is stored
   at the current index; the handlers are invoked in the poll whose packet
   brings the byte count to the declared length or past it, and in no other
   OUT poll, the stage is left by then, and the data they get is the first
   `length` bytes received. *)
C21_DataOutStage ==
    [][(~panicked' /\ ~ev'.reset) =>
        /\ (ev'.setup /\ xfer' # None /\ xfer'[1].direction = "HostToDevice") =>
              LET length == xfer'[1].length
              IN  /\ (0 < length /\ length <= BufLen) =>
                        /\ state' = "DataOut" /\ i' = 0 /\ len' = length
                        /\ NoHandlerInvoked' /\ out_bytes' = <<>>
                  /\ length > BufLen =>
                        /\ state' = "Error" /\ {EP0_OUT, EP0_IN} \subseteq stalled'
                        /\ NoHandlerInvoked'
                  /\ length = 0 =>
                        /\ OutHandlersInvoked' /\ len' = 0
                        /\ state' \in {"StatusIn", "Error"}
        /\ (~ev'.setup /\ Bit(ev'.ep_out, 0) /\ state # "DataOut") =>
              NoHandlerInvoked'
        /\ (~ev'.setup /\ Bit(ev'.ep_out, 0) /\ state = "DataOut"
                /\ <<"read", EP0_OUT>> \in Range(bus_calls')) =>
              LET n == Len(out_bytes') - Len(out_bytes)
              IN  /\ n >= 0 /\ i' = i + n /\ len' = len
                  /\ SubSeq(out_bytes', 1, Len(out_bytes)) = out_bytes
                  /\ Bytes(buf', i, n) = SubSeq(out_bytes', Len(out_bytes) + 1,
                                                Len(out_bytes'))
                  /\ i' = Len(out_bytes')
                  /\ IF i' >= len
                     THEN /\ OutHandlersInvoked'
                          /\ state' \in {"StatusIn", "Error"}
                          /\ Bytes(buf', 0, len) = SubSeq(out_bytes', 1, len)
                     ELSE NoHandlerInvoked' /\ state' = "DataOut"]_vars

(* 12 bytes declared, 5 then 8 received: the handlers got the first 12 of the
   13 bytes and a class accepted *)
C21_Witness ==
    /\ xfer = Some(Parse(PktVendorOut(12)).req)
    /\ out_bytes = OutChunk(0, 5) \o OutChunk(10, 8)
    /\ state = "StatusIn" /\ Len(OutHandlerCalls) = 2

(* the whole buffer: 128 bytes in two packets *)
C21_WitnessFull ==
    /\ xfer = Some(Parse(PktVendorOut(BufLen)).req)
    /\ Len(out_bytes) = BufLen /\ i = BufLen
    /\ OutHandlerCalls # <<>>

(* too long for the buffer *)
C21_WitnessTooLong ==
    /\ ev.setup /\ xfer = Some(Parse(PktVendorOut(BufLen + 1)).req)
    /\ state = "Error"

(* no data stage: handled in the SETUP poll *)
C21_WitnessNoData ==
    /\ ev.setup /\ xfer = Some(Parse(PktVendorOut(0)).req)
    /\ state = "StatusIn" /\ OutHandlerCalls # <<>>

---------------------------------------------------------------------------
(* Properties of the end of a device-to-host transfer (FairComplete) *)

(* a device-to-host transfer is under way *)
DataInActive == state \in {"DataIn", "DataInZlp", "DataInLast", "StatusOut"}

(* C22: the IN-complete met in DataInLast unstalls endpoint-zero OUT and
   leaves the engine in StatusOut, the zero-length OUT packet met in StatusOut
   leaves it in Idle, and a device-to-host transfer that is under way reaches
   Idle unless the host starts another transfer first. *)
C22_TransferCompletes ==
    /\ [][(~panicked' /\ ~ev'.reset /\ ~ev'.setup) =>
            /\ (Bit(ev'.ep_in_complete, 0) /\ state = "DataInLast") =>
                  /\ state' = "StatusOut"
                  /\ EP0_OUT \notin stalled'
                  /\ <<"unstall", EP0_OUT>> \in Range(bus_calls')
            /\ (Bit(ev'.ep_out, 0) /\ state = "StatusOut") => state' = "Idle"]_vars
    /\ \A n \in 0..MaxTransfers :
          (DataInActive /\ host.k = n) ~> (state = "Idle" \/ host.k > n)

(* the first chunk write of the SETUP returned Busy: the status packet of the
   transfer before was still pending *)
C22_Witness ==
    /\ ev.setup /\ state = "DataIn" /\ i = 0 /\ len > 0
    /\ <<"write_busy", Min(len, max_packet_size_0)>> \in Range(bus_calls)
    /\ in_flight # None

(* a transfer of 20 bytes went through its three packets and its status stage *)
C22_WitnessDone ==
    /\ state = "Idle" /\ in_packets = <<8, 8, 4>>
    /\ Bit(ev.ep_out, 0) /\ prev_state = "StatusOut"

---------------------------------------------------------------------------
(* Properties of the bytes of the data stage (SpecIntegrity) *)

(* a device-to-host transfer whose handler returned Ok(n) is in its data
   stage or past it *)
DataInAnswered ==
    /\ ~panicked /\ xfer # None /\ deposited # None
    /\ xfer[1].direction = "DeviceToHost"
    /\ DataInActive

(* the bytes written so far are the first i bytes of the buffer, i is at most
   min(n, request.length) and is that once the data stage is over, and every
   packet written but the last is full *)
DataInIntegrity ==
    DataInAnswered =>
        /\ len = Min(deposited[1], xfer[1].length)
        /\ i <= len
        /\ in_bytes = Bytes(buf, 0, i)
        /\ Len(in_bytes) <= xfer[1].length
        /\ state # "DataIn" => i = len
        /\ SumOver(LAMBDA k : in_packets[k], Len(in_packets)) = i
        /\ \A k \in 1..Len(in_packets) :
              k < Len(in_packets) => in_packets[k] = max_packet_size_0

(* C23: from the handler's Ok(n) on, after every poll, the IN packets handed
   to the bus add up to the first bytes of the control buffer, in order, up to
   min(n, request.length) and never more than request.length, all packets but
   the last of max_packet_size_0 bytes; a Busy write sends nothing and moves
   nothing, and the data stage leaves the buffer as the handler left it. *)
C23_DataStageIntegrity ==
    [][/\ DataInIntegrity'
       /\ (DataInAnswered /\ DataInAnswered' /\ ~ev'.setup) =>
              /\ buf' = buf
              /\ SubSeq(in_bytes', 1, Len(in_bytes)) = in_bytes
              /\ (\E c \in Range(bus_calls') : c[1] = "write_busy") =>
                     in_bytes' = in_bytes /\ i' = i]_vars

(* 20 bytes answered to a request of 64: three packets, the first refused
   once as Busy before it went out *)
C23_Witness ==
    /\ DataInAnswered /\ state = "StatusOut"
    /\ deposited = Some(20) /\ xfer[1].length = 64
    /\ in_packets = <<8, 8, 4>>
    /\ in_bytes = ClassPayload(2, 20)

(* a chunk refused as Busy in the middle of the data stage *)
C23_WitnessBusy ==
    /\ DataInAnswered /\ state = "DataIn" /\ i = 8 /\ in_flight = None
    /\ <<"write_busy", 8>> \in Range(bus_calls)

(* more bytes answered than asked: only request.length are sent *)
C23_WitnessCut ==
    /\ DataInAnswered /\ state = "StatusOut"
    /\ deposited = Some(20) /\ xfer[1].length = 16
    /\ in_packets = <<8, 8, 0>> /\ in_bytes = SubSeq(ClassPayload(2, 20), 1, 16)

---------------------------------------------------------------------------
(* Properties of the feature and status requests (SpecFeatures) *)

(* the standard handler accepted a request in the last poll *)
StdOk(op) ==
    /\ ~panicked /\ xfer # None
    /\ [op |-> op, res |-> "Ok"] \in Range(std_calls)

(* the standard handler accepted the request p in the last poll *)
StdAccepted(op, p) == StdOk(op) /\ xfer = Some(Parse(p).req)

(* the request of the last SETUP is (recipient, request) with this value *)
IsRequest(recipient, code, value) ==
    /\ xfer # None
    /\ xfer[1].recipient = recipient
    /\ xfer[1].request = code
    /\ xfer[1].value = value

(* C24: remote_wakeup_enabled becomes true in the poll where the standard
   handler accepts (Device, SET_FEATURE, DEVICE_REMOTE_WAKEUP), false in the
   one where it accepts the CLEAR_FEATURE, and changes in no other poll; a
   (Device, GET_STATUS) it answers returns two bytes, the first with the
   self-powered flag in bit 0, the flag in bit 1 and nothing else, the second
   zero. *)
C24_RemoteWakeupStatus ==
    [][~panicked' =>
        /\ remote_wakeup_enabled' =
              IF StdOk("standard_control_out")'
                    /\ IsRequest("Device", SET_FEATURE, FEATURE_DEVICE_REMOTE_WAKEUP)'
              THEN TRUE
              ELSE IF StdOk("standard_control_out")'
                    /\ IsRequest("Device", CLEAR_FEATURE, FEATURE_DEVICE_REMOTE_WAKEUP)'
              THEN FALSE
              ELSE remote_wakeup_enabled
        /\ (StdOk("standard_control_in")' /\ IsRequest("Device", GET_STATUS, 0)') =>
              /\ deposited' = Some(2)
              /\ ByteAt(buf', 0) = (IF Info.self_powered THEN 1 ELSE 0)
                                   + (IF remote_wakeup_enabled THEN 2 ELSE 0)
              /\ ByteAt(buf', 1) = 0]_vars

(* GET_STATUS answers 2: remote wakeup was set, cleared and set again, and a
   bus reset came after that *)
C24_Witness ==
    /\ StdAccepted("standard_control_in", PktGetStatus)
    /\ ByteAt(buf, 0) = 2 /\ remote_wakeup_enabled
    /\ device_state = "Default"

(* GET_STATUS answers 0 after a CLEAR_FEATURE *)
C24_WitnessCleared ==
    /\ StdAccepted("standard_control_in", PktGetStatus)
    /\ ByteAt(buf, 0) = 0 /\ prev_state = "StatusIn"

(* C25: the poll where the standard handler accepts (Endpoint, SET_FEATURE,
   ENDPOINT_HALT) adds the address index & 0x8F to the stalled endpoints of
   the bus and changes no other, the one where it accepts the CLEAR_FEATURE
   removes that address and changes no other, and an (Endpoint, GET_STATUS)
   it answers returns two bytes, the first 1 if the bus has that address
   stalled and 0 if not, the second zero. *)
C25_EndpointHalt ==
    [][(~panicked' /\ xfer' # None) =>
        LET x == xfer'[1].index
            a == (x % 16) + (IF (x \div 128) % 2 = 1 THEN 128 ELSE 0)
        IN  /\ (StdOk("standard_control_out")'
                  /\ IsRequest("Endpoint", SET_FEATURE, FEATURE_ENDPOINT_HALT)') =>
                  stalled' = stalled \cup {a}
            /\ (StdOk("standard_control_out")'
                  /\ IsRequest("Endpoint", CLEAR_FEATURE, FEATURE_ENDPOINT_HALT)') =>
                  stalled' = stalled \ {a}
            /\ (StdOk("standard_control_in")'
                  /\ IsRequest("Endpoint", GET_STATUS, 0)') =>
                  /\ deposited' = Some(2)
                  /\ ByteAt(buf', 0) = (IF a \in stalled THEN 1 ELSE 0)
                  /\ ByteAt(buf', 1) = 0
                  /\ stalled' = stalled]_vars

(* GET_STATUS with index 0x0191 reads 1 for the endpoint 0x81 halted with
   index 0x81, the endpoint 0x02 not halted *)
C25_Witness ==
    /\ StdAccepted("standard_control_in", PktGetEndpointStatus(401))
    /\ ByteAt(buf, 0) = 1 /\ 129 \in stalled /\ 2 \notin stalled

(* GET_STATUS reads 0 right after the CLEAR_FEATURE that followed a SET_FEATURE *)
C25_WitnessCleared ==
    /\ StdAccepted("standard_control_in", PktGetEndpointStatus(2))
    /\ ByteAt(buf, 0) = 0 /\ 129 \in stalled

---------------------------------------------------------------------------
(* SpecDescriptors: devices built with different classes answer
   GET_DESCRIPTOR for every descriptor type and string index; the bus never
   fails.  The classes registered are those of the test setup, or the same
   with a second class whose descriptors do not fit in the control buffer
   after the first one's, with a class whose get_configuration_descriptors
   returns an error of its own, or with two classes that have the same
   string. *)

(* five interfaces with two endpoints each: 115 bytes *)
BigDescriptors ==
    <<IfaceDesc(1), EpDesc(130), EpDesc(2), IfaceDesc(2), EpDesc(131), EpDesc(3),
      IfaceDesc(3), EpDesc(132), EpDesc(4), IfaceDesc(4), EpDesc(133), EpDesc(5),
      IfaceDesc(5), EpDesc(134), EpDesc(6)>>

OverflowingClasses == [TestClasses EXCEPT !.descriptors[2] = BigDescriptors]
FailingClasses == [TestClasses EXCEPT !.fails[NumClasses] = TRUE]
SharedStringClasses ==
    [TestClasses EXCEPT !.strings = [k \in Classes |-> IF k = 1 THEN {4} ELSE {5, 3 + k}]]

Registrations ==
    {TestClasses, OverflowingClasses, FailingClasses, SharedStringClasses}

InitDescriptors == InitDevice /\ classes \in Registrations

PktGetString(index, lang_id) ==
    Setup(128, GET_DESCRIPTOR, 256 * DESC_STRING + index, lang_id, 255)

DescriptorPackets ==
    {PktGetDescriptor(DESC_DEVICE, 0, 18),
     PktGetDescriptor(DESC_CONFIGURATION, 0, 255),
     PktGetDescriptor(6, 0, 255),
     PktSetConfiguration1}
    \cup {PktGetString(n, ENGLISH_US) : n \in {0, 2, 5, 7}}
    \cup {PktGetString(5, 1031)}    \* German

(* no class claims the request, or the first class rejects it *)
DescriptorAnswers ==
    ClassesIgnore \cup {[cin |-> AnswersIn(1, Err), cout |-> AnswersOut(1, Err)]}

MaxRequests == 2

(* the host sends up to MaxRequests requests, each when the transfer before
   it is over or was stalled *)
DescriptorSetup ==
    /\ state \in {"Idle", "Error"}
    /\ host.k < MaxRequests
    /\ \E p \in DescriptorPackets, a \in DescriptorAnswers :
           Poll([NoEvent EXCEPT !.setup = TRUE],
                [NoInput EXCEPT !.pkt = ReadOk(p), !.cin = a.cin, !.cout = a.cout])
    /\ host' = [host EXCEPT !.k = @ + 1]

NextDescriptors ==
    \/ DescriptorSetup
    \/ PollInCompleteOf({"Ok"})
    \/ PollOutOf({ReadOk(<<>>)}, ClassesIgnore, {"Ok"})

SpecDescriptors == InitDescriptors /\ [][NextDescriptors]_vars

(* the class callbacks of the last poll with this name *)
CallsOf(op) == SelectSeq(class_calls, LAMBDA c : c.op = op)

(* the registered classes can emit their descriptors: none fails by itself
   and header and descriptors fit in the control buffer *)
DescriptorBytes(items) == SumOver(LAMBDA n : Len(items[n][2]) + 2, Len(items))
ClassesEmit ==
    /\ \A k \in Classes : ~classes.fails[k]
    /\ 9 + SumOver(LAMBDA k : DescriptorBytes(classes.descriptors[k]), NumClasses)
           <= BufLen

(* C26: no poll aborts, and a poll that answers GET_DESCRIPTOR(CONFIGURATION)
   in which get_configuration_descriptors of a class returned an error ends
   in the Error stage with both directions of endpoint zero stalled. *)
C26_DescriptorErrorStalls ==
    /\ ~panicked
    /\ (/\ ev.setup /\ xfer # None /\ IsGetConfiguration(xfer[1])
        /\ \E c \in Range(CallsOf("get_configuration_descriptors")) : c.res = "Err")
       => (state = "Error" /\ BothStalled)

(* C26: in SpecDescriptors a poll aborts only when it handles a SETUP for a
   device whose classes cannot emit their descriptors *)
C26_AbortsOnDescriptorError ==
    panicked => (ev.setup /\ ~ClassesEmit)

(* C26: with classes that emit their descriptors, GET_DESCRIPTOR(CONFIGURATION)
   is answered and nothing aborts *)
C26_EmittingClassesAnswer ==
    ClassesEmit =>
        /\ ~panicked
        /\ (StdOk("standard_control_in") /\ ev.setup /\ IsGetConfiguration(xfer[1]))
           => state \in {"DataIn", "DataInLast", "DataInZlp"}

(* C26: the device whose second class has 115 bytes of descriptors aborts *)
C26_WitnessOverflow == panicked /\ classes = OverflowingClasses

(* C26: the classes of the test setup answer with the 80-byte descriptor *)
C26_WitnessAnswered ==
    /\ classes = TestClasses /\ ev.setup /\ StdOk("standard_control_in")
    /\ IsGetConfiguration(xfer[1]) /\ deposited = Some(80) /\ state = "DataIn"

(* the bytes the writer appends for a sequence of <<type, data>> items *)
RECURSIVE ItemsBytes(_, _)
ItemsBytes(items, n) ==
    IF n = 0 THEN <<>>
    ELSE ItemsBytes(items, n - 1) \o <<Len(items[n][2]) + 2, items[n][1]>> \o items[n][2]

(* the descriptors of the classes 1..k, in registration order *)
RECURSIVE ContributionsUpTo(_)
ContributionsUpTo(k) ==
    IF k = 0 THEN <<>>
    ELSE ContributionsUpTo(k - 1)
         \o ItemsBytes(classes.descriptors[k], Len(classes.descriptors[k]))

(* the standard handler answered GET_DESCRIPTOR(CONFIGURATION) in the last poll *)
ConfigurationAnswered ==
    /\ ev.setup /\ ~panicked /\ xfer # None /\ IsGetConfiguration(xfer[1])
    /\ \E c \in Range(std_calls) : c.op = "standard_control_in"

(* C27: in the poll where the device answers GET_DESCRIPTOR(CONFIGURATION),
   get_configuration_descriptors is invoked once on each registered class, in
   registration order; the buffer then holds the 9-byte header, after it the
   classes' descriptors in that order, and in bytes 2 and 3 the length of
   header and contributions together.  In every other poll it is invoked on
   no class. *)
C27_ContributionOrder ==
    LET calls == CallsOf("get_configuration_descriptors")
        total == ByteAt(buf, 2) + 256 * ByteAt(buf, 3)
    IN  IF ConfigurationAnswered
        THEN /\ Len(calls) = NumClasses
             /\ \A k \in Classes : calls[k].cls = k /\ calls[k].res = "Ok"
             /\ ByteAt(buf, 0) = 9 /\ ByteAt(buf, 1) = DESC_CONFIGURATION
             /\ total = 9 + Len(ContributionsUpTo(NumClasses))
             /\ Bytes(buf, 9, total - 9) = ContributionsUpTo(NumClasses)
        ELSE calls = <<>>

(* the three classes of the test setup contributed, 25, 46 and 0 bytes *)
C27_Witness ==
    /\ ConfigurationAnswered /\ classes = TestClasses
    /\ Len(CallsOf("get_configuration_descriptors")) = 3
    /\ Bytes(buf, 9, 2) = <<9, DESC_INTERFACE>>
    /\ Bytes(buf, 34, 3) = <<9, DESC_INTERFACE, 1>>
    /\ ByteAt(buf, 2) = 80

(* a string request consults the classes for the string, not for descriptors *)
C27_WitnessOtherRequest ==
    /\ ev.setup /\ ~panicked /\ Len(CallsOf("get_string")) = NumClasses
    /\ CallsOf("get_configuration_descriptors") = <<>>

(* the string descriptor of s: length, type, UTF-16LE *)
StringDescriptor(s) == <<2 + 2 * Len(s), DESC_STRING>> \o Utf16(s)

(* the last poll handled a SETUP of GET_DESCRIPTOR that reached the standard
   handler, which answered res *)
DescriptorRequested(res) ==
    /\ ev.setup /\ ~panicked /\ IsRequest("Device", GET_DESCRIPTOR, xfer[1].value)
    /\ xfer[1].direction = "DeviceToHost" /\ xfer[1].request_type = "Standard"
    /\ [op |-> "standard_control_in", res |-> res] \in Range(std_calls)

(* the buffer starts with descriptor b and the handler returned its length *)
Returned(b) == Bytes(buf, 0, Len(b)) = b /\ deposited = Some(Len(b))

(* the classes that have the string index in the language lang_id *)
ClassesWithString(index, lang_id) ==
    {k \in Classes : index \in classes.strings[k] /\ lang_id = ENGLISH_US}

(* C28: GET_DESCRIPTOR(STRING) with index 0 returns the language list 0x0409;
   1, 2 and 3 return manufacturer, product and serial number and ask no
   class; any other index is offered to the classes in registration order up
   to the first that has the string, which is returned, and is an error
   (stall) when no class has it; a descriptor type other than DEVICE,
   CONFIGURATION and STRING is an error (stall). *)
C28_StringSelection ==
    \A res \in {"Ok", "Err"} : DescriptorRequested(res) =>
        LET dtype == Hi(xfer[1].value)
            index == Lo(xfer[1].value)
            calls == CallsOf("get_string")
            have == ClassesWithString(index, xfer[1].index)
            first == CHOOSE k \in have : \A j \in have : k <= j
            Stalled == res = "Err" /\ state = "Error" /\ BothStalled
        IN  /\ dtype \notin {DESC_DEVICE, DESC_CONFIGURATION, DESC_STRING}
                => Stalled /\ calls = <<>>
            /\ dtype # DESC_STRING => calls = <<>>
            /\ dtype = DESC_STRING /\ index = 0
                => res = "Ok" /\ calls = <<>>
                   /\ Returned(<<4, DESC_STRING, 9, 4>>)
            /\ dtype = DESC_STRING /\ index \in 1..3
                => res = "Ok" /\ calls = <<>>
                   /\ Returned(StringDescriptor(
                          <<Info.manufacturer, Info.product, Info.serial_number>>[index]))
            /\ dtype = DESC_STRING /\ index > 3 /\ have = {}
                => /\ Stalled
                   /\ Len(calls) = NumClasses
                   /\ \A k \in Classes : calls[k].cls = k /\ calls[k].res = "None"
            /\ dtype = DESC_STRING /\ index > 3 /\ have # {}
                => /\ res = "Ok" /\ Len(calls) = first
                   /\ \A k \in 1..first :
                          calls[k].cls = k
                          /\ calls[k].res = (IF k = first THEN "Some" ELSE "None")
                   /\ Returned(StringDescriptor(<<67, 48 + first>>))

(* classes 2 and 3 both have string 5: class 2 answers, class 3 is not asked *)
C28_Witness ==
    /\ DescriptorRequested("Ok") /\ classes = SharedStringClasses
    /\ xfer[1].value = 256 * DESC_STRING + 5
    /\ Len(CallsOf("get_string")) = 2
    /\ Returned(<<6, DESC_STRING, 67, 0, 50, 0>>)

(* no class has string 7, none has string 5 in German: stall *)
C28_WitnessNone ==
    /\ DescriptorRequested("Err") /\ xfer[1].value = 256 * DESC_STRING + 7
    /\ state = "Error" /\ Len(CallsOf("get_string")) = NumClasses
C28_WitnessLanguage ==
    /\ DescriptorRequested("Err") /\ xfer[1].value = 256 * DESC_STRING + 5
    /\ xfer[1].index # ENGLISH_US /\ state = "Error"

(* the product string and the language list *)
C28_WitnessProduct ==
    /\ DescriptorRequested("Ok") /\ xfer[1].value = 256 * DESC_STRING + 2
    /\ Returned(<<6, DESC_STRING, 80, 0, 114, 0>>) /\ class_calls # <<>>
C28_WitnessLanguages ==
    /\ DescriptorRequested("Ok") /\ xfer[1].value = 256 * DESC_STRING
    /\ Returned(<<4, DESC_STRING, 9, 4>>)

(* descriptor type 6 (device qualifier) is refused *)
C28_WitnessOtherType ==
    /\ DescriptorRequested("Err") /\ Hi(xfer[1].value) = 6 /\ state = "Error"

---------------------------------------------------------------------------
(* C29: mutual exclusion of the cell *)

(* the contexts that hold a live RefMut *)
LiveRefMuts == {k \in Contexts : cell.guards[k]}

(* C29: at most one RefMut is live at any time, the state word is BORROW_MUT
   while one is, a borrow() succeeds only on a cell that was frozen, and from
   the freeze on (so while any shared reference exists) the state word is
   FROZEN and no RefMut is live. *)
C29_MutualExclusion ==
    /\ Cardinality(LiveRefMuts) <= 1
    /\ LiveRefMuts # {} => cell.state = BORROW_MUT
    /\ (cell.last.op = "borrow" /\ cell.last.ok) => cell.frozen
    /\ cell.frozen => (cell.state = FROZEN /\ LiveRefMuts = {})

(* one context holds the RefMut and the borrow_mut of another one failed *)
C29_Witness ==
    /\ cell.last.op = "borrow_mut" /\ ~cell.last.ok
    /\ Cardinality(LiveRefMuts) = 1 /\ cell.last.who \notin LiveRefMuts
    /\ cell.state = BORROW_MUT

(* a shared reference handed out after an endpoint was allocated through a
   RefMut that was dropped *)
C29_WitnessShared ==
    /\ cell.last.op = "borrow" /\ cell.last.ok
    /\ cell.value.handles # {} /\ LiveRefMuts = {}

(* a context that held the RefMut panicked in freeze and its unwinding
   released the cell *)
C29_WitnessUnwound ==
    /\ cell.last.op = "freeze" /\ ~cell.last.ok
    /\ cell.state = FREE /\ cell.outstanding = 0 /\ ~cell.alive[cell.last.who]
    /\ cell.value.handles # {}

---------------------------------------------------------------------------
(* C30: what changes the pending address *)

(* the poll that ends handled an IN-complete of endpoint zero in StatusIn:
   StatusIn is the stage the poll began in or, when the same poll handled a
   SETUP first, the stage that SETUP led to, the only one an IN-complete
   leaves for Idle *)
InCompleteInStatusIn ==
    /\ Bit(ev'.ep_in_complete, 0) /\ ~ev'.reset
    /\ IF ev'.setup THEN state' = "Idle" ELSE state = "StatusIn"

(* the standard handler accepted a SET_ADDRESS in the poll that ends *)
SetAddressAccepted ==
    /\ StdOk("standard_control_out")'
    /\ xfer'[1].recipient = "Device" /\ xfer'[1].request = SET_ADDRESS

(* C30: a poll that returns changes the pending address only in these ways:
   a bus reset sets it to 0; an endpoint-zero IN-complete handled in StatusIn
   takes it (a non-zero one goes to the bus) and leaves 0; a SET_ADDRESS the
   standard handler accepts, its value in 1..127, sets it to that value.  A
   poll with none of these leaves it as it was. *)
C30_PendingAddressFrame ==
    [][~panicked' =>
        LET latched == IF SetAddressAccepted THEN xfer'[1].value ELSE pending_address
        IN  CASE ev'.reset -> pending_address' = 0
              [] InCompleteInStatusIn ->
                    /\ pending_address' = 0
                    /\ latched # 0 =>
                           <<"set_device_address", latched>> \in Range(bus_calls')
              [] SetAddressAccepted /\ ~InCompleteInStatusIn /\ ~ev'.reset ->
                    /\ xfer'[1].value \in 1..127
                    /\ pending_address' = xfer'[1].value
              [] OTHER -> pending_address' = pending_address]_vars

(* an OUT packet, refused, left the latched address where it was *)
C30_Witness ==
    /\ pending_address = 42 /\ ev.ep_out = 1 /\ ~ev.setup /\ state = "Error"
    /\ prev_state = "StatusIn"

(* the IN-complete in StatusIn took address 42 *)
C30_WitnessTaken ==
    /\ pending_address = 0 /\ ev.ep_in_complete = 1 /\ ~ev.setup
    /\ prev_state = "StatusIn" /\ state = "Idle"
    /\ <<"set_device_address", 42>> \in Range(bus_calls)

(* SET_ADDRESS(0) and SET_ADDRESS(128) are refused and leave 42 latched *)
C30_WitnessRefused ==
    /\ pending_address = 42 /\ ev.setup /\ xfer # None
    /\ xfer[1].request = SET_ADDRESS /\ xfer[1].value \in {0, 128}
    /\ state = "Error"

---------------------------------------------------------------------------
(* SpecPreempt: the polls of SpecEndpoints, and polls whose snapshot reports
   a bus reset together with other events *)

PollResetWith ==
    \E su \in BOOLEAN, o \in EventBits, c \in EventBits, rst \in ResetAnswers,
       p \in {ReadOk(q) : q \in EndpointsPackets} \cup {ReadOk(DataPacket(8))} :
        /\ su => p.data \in EndpointsPackets
        /\ ~su => p.data = DataPacket(8)
        /\ Poll([reset |-> TRUE, setup |-> su, ep_out |-> o, ep_in_complete |-> c],
                [NoInput EXCEPT !.pkt = p, !.rst = rst])
        /\ host' = host

NextPreempt == PollResetWith \/ PollEvents

SpecPreempt == Init /\ [][NextPreempt]_vars

(* C31: a poll whose snapshot reports a bus reset, and that returns, does the
   reset and nothing else: one bus reset, the device in Default and Idle with
   no pending address, reset() called once on each class in registration
   order; it enters no endpoint-zero handler, broadcasts no endpoint event,
   calls no other class callback and no standard handler, and leaves the
   latched request, the buffer, index and length as they were. *)
C31_ResetPreempts ==
    [][(ev'.reset /\ ~panicked') =>
          /\ handled' = <<>>
          /\ std_calls' = <<>>
          /\ bus_calls' = <<<<"reset", 0>>>>
          /\ Len(class_calls') = NumClasses
          /\ \A k \in Classes : class_calls'[k].op = "reset" /\ class_calls'[k].cls = k
          /\ state' = "Idle" /\ device_state' = "Default" /\ pending_address' = 0
          /\ request' = request /\ buf' = buf /\ i' = i /\ len' = len
          /\ xfer' = xfer /\ in_packets' = in_packets]_vars

(* a reset reported with a SETUP, an OUT packet and IN completions on endpoint
   zero and on the last endpoint, while a transfer was in its data stage *)
C31_Witness ==
    /\ ev.reset /\ ev.setup /\ Bit(ev.ep_out, 0) /\ Bit(ev.ep_in_complete, 0)
    /\ Bit(ev.ep_out, MAX_ENDPOINTS - 1)
    /\ ~panicked /\ handled = <<>> /\ state = "Idle"
    /\ prev_state \in {"DataIn", "DataInLast", "DataOut"} /\ xfer # None

---------------------------------------------------------------------------
(* SpecVolatile: two runs of the device side by side.  The device takes any
   requests, then a bus reset; from the reset on a second device, the twin,
   which had no history before its reset, takes the same snapshots and the
   same inputs.  The host record carries the twin. *)

MaxPolls == 5

Twin == IF "twin" \in DOMAIN host THEN host.twin ELSE None
Polls == IF "polls" \in DOMAIN host THEN host.polls ELSE 0
(* a SETUP was handled since the last reset *)
Begun == IF "begun" \in DOMAIN host THEN host.begun ELSE FALSE

VolatilePackets ==
    {PktSetRemoteWakeup, PktSetAddress42, PktSetHalt, PktGetStatus,
     PktGetEndpointStatus(129), PktVendorIn(8)}

VolatileAnswers ==
    ClassesIgnore \cup {[cin |-> AnswersIn(2, Ok(12)), cout |-> AllIgnore]}

(* one poll of the device and, once it exists, of the twin *)
BothPoll(pr, in) ==
    /\ Polls < MaxPolls
    /\ Poll(pr, in)
    /\ host' = [polls |-> Polls + 1,
                begun |-> ~pr.reset /\ (Begun \/ pr.setup),
                twin |-> IF pr.reset
                         THEN Some(Aborted(poll(IF Twin = None THEN InitDev
                                                ELSE Twin[1], pr, in)))
                         ELSE IF Twin = None THEN None
                         ELSE Some(Aborted(poll(Twin[1], pr, in)))]

NextVolatile ==
    \/ BothPoll([NoEvent EXCEPT !.reset = TRUE], NoInput)
    \/ \E p \in VolatilePackets, a \in VolatileAnswers :
           BothPoll([NoEvent EXCEPT !.setup = TRUE],
                    [NoInput EXCEPT !.pkt = ReadOk(p), !.cin = a.cin, !.cout = a.cout])
    \/ BothPoll([NoEvent EXCEPT !.ep_in_complete = 1], NoInput)
    \/ BothPoll([NoEvent EXCEPT !.ep_out = 1],
                [NoInput EXCEPT !.pkt = ReadOk(<<>>)])

SpecVolatile == Init /\ [][NextVolatile]_vars

(* what a run shows of itself: the bus calls of the last poll, the stalled
   endpoints, the packet waiting on endpoint-zero IN, the IN packets of the
   transfer begun since the reset and their bytes (the GET_STATUS results
   among them), an abort *)
Observed(d) ==
    [bus_calls |-> d.bus_calls, stalled |-> d.stalled, in_flight |-> d.in_flight,
     in_packets |-> IF Begun THEN d.in_packets ELSE <<>>,
     in_bytes |-> IF Begun THEN d.in_bytes ELSE <<>>,
     panicked |-> d.panicked]

(* C32: from the bus reset on, the device with any history before the reset
   and the twin without one show the same bus calls, stalls, IN packets and
   GET_STATUS results. *)
C32_ResetVolatile ==
    Twin # None => Observed(Dev) = Observed(Twin[1])

(* C32, apart from the remote-wakeup flag: when the flag of the device and of
   the twin agree, the two show the same after the reset *)
C32_VolatileButRemoteWakeup ==
    (Twin # None /\ Twin[1].remote_wakeup_enabled = remote_wakeup_enabled)
        => Observed(Dev) = Observed(Twin[1])

(* C32: reset() leaves the remote-wakeup flag as it was *)
C32_ResetKeepsRemoteWakeup ==
    [][(ev'.reset /\ ~panicked') =>
          remote_wakeup_enabled' = remote_wakeup_enabled]_vars

(* the device with remote wakeup enabled before the reset, right after it *)
C32_WitnessKept ==
    /\ ev.reset /\ ~panicked /\ remote_wakeup_enabled
    /\ Twin # None /\ ~Twin[1].remote_wakeup_enabled

---------------------------------------------------------------------------
(* SpecEcho: a host sends up to MaxPackets packets of 0, 10 or 64 bytes to
   the bulk OUT endpoint of a TestClass and collects the packets of its bulk
   IN endpoint, in any order; the program runs its main loop: the device
   dispatches the endpoint events the bus reports to the callbacks of the
   class, then TestClass::poll runs.  Packets arrive between two turns of the
   loop.  The device itself stands still. *)

MaxPackets == 5

PacketSizes == {0, 10, ep_bulk_out.max_packet_size}

TestStep(t) ==
    /\ ~tc.panicked
    /\ tc' = t
    /\ UNCHANGED <<state, request, buf, i, len, device_state, pending_address,
                   remote_wakeup_enabled, stalled, in_flight, panicked, ev,
                   bus_calls, class_calls, std_calls, xfer, deposited, in_packets,
                   prev_state, handled, out_bytes, in_bytes, classes, host, cell>>

(* an echo is going on: a message is complete and not yet written and
   collected to its end *)
Echoing(t) ==
    t.expected # None /\ (t.s.len # 0 \/ t.s.expect_bulk_in_complete
                          \/ t.in_pending # None \/ t.in_event)

(* the host sends a packet of n bytes, which differ from packet to packet *)
HostSends ==
    \E n \in PacketSizes :
        /\ tc.out_pending = None /\ tc.sent < MaxPackets
        /\ TestStep([tc EXCEPT !.out_pending =
                                   Some([j \in 1..n |-> (40 * tc.sent + j) % 256]),
                               !.out_event = TRUE,
                               !.sent = @ + 1,
                               !.overlapped = @ \/ Echoing(tc)])

(* the host collects the packet waiting on the bulk IN endpoint *)
HostCollects ==
    /\ tc.in_pending # None
    /\ TestStep([tc EXCEPT !.in_pending = None, !.in_event = TRUE])

(* one turn of the main loop: the events are dispatched, then TestClass::poll.
   A completed IN packet reaches the class through endpoint_in_complete, as
   the UsbClass trait documents, or through endpoint_out with the IN address,
   as UsbDevice::poll of this crate calls it. *)
MainLoop ==
    \E checked, documented \in BOOLEAN :
        LET t1 == IF tc.out_event
                  THEN TestClass_endpoint_out(tc, ep_bulk_out.address) ELSE tc
            t2 == IF ~tc.in_event THEN t1
                  ELSE IF documented
                  THEN TestClass_endpoint_in_complete(t1, ep_bulk_in.address, checked)
                  ELSE [TestClass_endpoint_out(t1, ep_bulk_in.address)
                            EXCEPT !.misrouted = TRUE]
            t3 == [t2 EXCEPT !.out_event = FALSE, !.in_event = FALSE]
        IN  TestStep(IF t3.panicked THEN t3 ELSE TestClass_poll(t3, checked))

NextEcho == HostSends \/ HostCollects \/ MainLoop

SpecEcho == Init /\ [][NextEcho]_vars

(* nothing is on its way: every packet sent was read, every packet written
   was collected and its completion dispatched, the last message is complete *)
Quiescent ==
    /\ tc.out_pending = None /\ ~tc.out_event
    /\ tc.in_pending = None /\ ~tc.in_event
    /\ tc.msg = <<>> /\ tc.expected # None

(* the packets that carry n bytes, an empty message taking one *)
PacketsFor(n) ==
    IF n = 0 THEN 1
    ELSE (n + ep_bulk_in.max_packet_size - 1) \div ep_bulk_in.max_packet_size

(* the message was written back whole, in as many packets as it takes, and
   the state is back to len = 0 and i = 0 *)
EchoedBack ==
    /\ tc.echo = tc.expected[1]
    /\ tc.packets = PacketsFor(Len(tc.expected[1]))
    /\ tc.s.len = 0 /\ tc.s.i = 0

(* C33: TestClass never aborts, i <= len <= 256 throughout, and once nothing
   is on its way the bytes written back are the message received, an empty
   message as one empty packet, with len = 0 and i = 0. *)
C33_BulkEcho ==
    /\ ~tc.panicked
    /\ tc.s.i <= tc.s.len /\ tc.s.len <= StateBufLen
    /\ Quiescent => EchoedBack

(* C33 without the order of i and len: no abort, both within the buffer, and
   the message echoed *)
C33_EchoNoAbort ==
    /\ ~tc.panicked
    /\ tc.s.i <= StateBufLen /\ tc.s.len <= StateBufLen
    /\ Quiescent => EchoedBack

(* C33 for a host that sends nothing while an echo is going on and no
   message of more than 256 bytes, and completed IN packets reported through
   endpoint_in_complete: no abort, i and len within the buffer, i <= len
   while the echo is going on, and the message echoed *)
C33_HalfDuplexEcho ==
    (~tc.overlapped /\ ~tc.misrouted /\ Len(tc.msg) + (IF tc.out_pending = None THEN 0
                                       ELSE Len(tc.out_pending[1])) <= StateBufLen)
    => /\ ~tc.panicked
       /\ tc.s.i <= StateBufLen /\ tc.s.len <= StateBufLen
       /\ Echoing(tc) => tc.s.i <= tc.s.len
       /\ Quiescent => EchoedBack


(* C33, where it breaks: the bytes written back are not the message received
   although TestClass ran on without abort *)
C33_EchoDiffers ==
    Quiescent /\ ~tc.panicked /\ ~tc.misrouted /\ tc.echo # tc.expected[1]

(* C33, where it breaks: a second message arrived while the packet of the
   first was waiting, and the bytes of the first were written twice *)
C33_Duplicated ==
    /\ Quiescent /\ ~tc.panicked /\ ~tc.misrouted
    /\ Len(tc.echo) > Len(tc.expected[1])

(* C33, where it breaks: an empty message arrived while the packet of
   another was waiting, and no packet was written for it *)
C33_EmptyMessageLost ==
    /\ Quiescent /\ ~tc.panicked /\ ~tc.misrouted
    /\ tc.expected[1] = <<>> /\ tc.packets = 0

(* C33, where it breaks: TestClass aborted on len - i or on the slice of buf
   although no message was longer than the buffer *)
C33_AbortsWithinBuffer ==
    /\ tc.panicked /\ ~tc.misrouted
    /\ tc.s.i > tc.s.len /\ tc.s.i <= StateBufLen

(* C33 for a half-duplex host: a message of several packets is complete and
   echoed back whole *)
C33_WitnessEchoed ==
    /\ ~tc.overlapped /\ ~tc.misrouted /\ Quiescent /\ EchoedBack
    /\ Len(tc.expected[1]) > ep_bulk_in.max_packet_size

(* C33, where it breaks: with UsbDevice::poll of this crate reporting the
   completed IN packet through endpoint_out, a half-duplex host collected the
   first packet of a longer message and the rest is never written *)
C33_EchoStuck ==
    /\ Quiescent /\ ~tc.panicked /\ ~tc.overlapped /\ tc.misrouted
    /\ Len(tc.echo) < Len(tc.expected[1])

---------------------------------------------------------------------------
(* SpecVendor: up to MaxVendor control requests to a TestClass, bulk packets
   read by it and resets, in any order.  The requests are vendor requests to
   the device with the codes TestClass knows and one it does not, and
   requests of another type or to another recipient. *)

MaxVendor == 4

BufferLengths == {0, 3, StateBufLen, StateBufLen + 1}

VendorOutPackets ==
    {Setup(64, REQ_WRITE_BUFFER, 0, 0, n) : n \in BufferLengths}
        \cup {Setup(64, REQ_STORE_REQUEST, 4660, 22136, 0),
              Setup(64, REQ_UNKNOWN, 0, 0, 0),
              Setup(64, REQ_READ_BUFFER, 0, 0, 0),
              Setup(32, REQ_WRITE_BUFFER, 0, 0, 3),      \* Class, Device
              Setup(65, REQ_WRITE_BUFFER, 0, 0, 3),      \* Vendor, Interface
              Setup(0, REQ_STORE_REQUEST, 0, 0, 0)}      \* Standard, Device

VendorInPackets ==
    {Setup(192, REQ_READ_BUFFER, 0, 0, n) : n \in BufferLengths \cup {8}}
        \cup {Setup(192, REQ_UNKNOWN, 0, 0, 3),
              Setup(192, REQ_WRITE_BUFFER, 0, 0, 3),
              Setup(192, REQ_STORE_REQUEST, 0, 0, 8),
              Setup(160, REQ_READ_BUFFER, 0, 0, 3),      \* Class, Device
              Setup(194, REQ_READ_BUFFER, 0, 0, 3)}      \* Vendor, Endpoint

(* a request reaches the class with no answer yet *)
Asked(t, kind, req, data) ==
    [t EXCEPT !.answer = NoAnswer,
              !.last = Some([kind |-> kind, req |-> req, data |-> data,
                             before |-> t.written]),
              !.asked = @ + 1]

(* a control-out transfer with its data, which differ from request to request *)
VendorOut ==
    \E p \in VendorOutPackets :
        LET req == Parse(p).req
            data == [j \in 1..req.length |-> (100 + 50 * tc.asked + j) % 256]
        IN  /\ tc.asked < MaxVendor
            /\ TestStep(TestClass_control_out(Asked(tc, "out", req, data), req, data))

(* a control-in request *)
VendorIn ==
    \E p \in VendorInPackets :
        LET req == Parse(p).req
        IN  /\ tc.asked < MaxVendor
            /\ TestStep(TestClass_control_in(Asked(tc, "in", req, <<>>), req))

(* the host sends a bulk packet and the main loop runs: endpoint_out, poll *)
BulkReceive ==
    \E n \in {0, 10}, checked \in BOOLEAN :
        /\ tc.asked < MaxVendor /\ tc.out_pending = None
        /\ TestStep(TestClass_poll(
               TestClass_endpoint_out(
                   [tc EXCEPT !.out_pending = Some([j \in 1..n |-> 200 + j]),
                              !.sent = @ + 1, !.asked = @ + 1,
                              !.last = None],
                   ep_bulk_out.address),
               checked))

(* a bus reset: UsbDevice::reset calls reset() of the class *)
TestReset ==
    /\ tc.asked < MaxVendor
    /\ TestStep(TestClass_reset([tc EXCEPT !.asked = @ + 1, !.last = None]))

NextVendor == VendorOut \/ VendorIn \/ BulkReceive \/ TestReset

SpecVendor == Init /\ [][NextVendor]_vars

(* the last request, of the given kind *)
LastIs(kind) == tc.last # None /\ tc.last[1].kind = kind

(* C34: a REQ_READ_BUFFER of length n after an accepted REQ_WRITE_BUFFER of
   n <= 256 bytes, with no store-request, bulk receive or reset in between,
   is accepted with those n bytes; a request that is not a vendor request to
   the device gets no answer from TestClass; a vendor request to the device
   with any other code, or a buffer request beyond 256 bytes, is rejected. *)
C34_BufferRoundTrip ==
    tc.last # None =>
        LET l == tc.last[1]
            known == IF l.kind = "in"
                     THEN l.req.request = REQ_READ_BUFFER /\ l.req.length <= StateBufLen
                     ELSE \/ l.req.request = REQ_STORE_REQUEST
                          \/ l.req.request = REQ_WRITE_BUFFER /\ Len(l.data) <= StateBufLen
        IN  /\ ~tc.panicked
            /\ (l.kind = "in" /\ VendorDevice(l.req) /\ l.req.request = REQ_READ_BUFFER
                  /\ l.before # None /\ l.req.length = Len(l.before[1]))
               => tc.answer = [tag |-> "Accepted", data |-> l.before[1]]
            /\ (l.kind = "out" /\ VendorDevice(l.req) /\ l.req.request = REQ_WRITE_BUFFER
                  /\ Len(l.data) <= StateBufLen)
               => tc.answer.tag = "Accepted" /\ tc.written = Some(l.data)
            /\ ~VendorDevice(l.req) => tc.answer = NoAnswer /\ tc.written = l.before
            /\ (VendorDevice(l.req) /\ ~known) => tc.answer.tag = "Rejected"
            /\ (VendorDevice(l.req) /\ known) => tc.answer.tag = "Accepted"

(* C34: three bytes were written, other requests were ignored or rejected
   after that, and a read of three bytes returned them *)
C34_Witness ==
    /\ LastIs("in") /\ tc.asked >= 3
    /\ tc.last[1].before # None /\ Len(tc.last[1].before[1]) = 3
    /\ tc.last[1].req.request = REQ_READ_BUFFER /\ tc.last[1].req.length = 3
    /\ tc.answer = [tag |-> "Accepted", data |-> tc.last[1].before[1]]
    /\ tc.answer.data[1] # 0

(* C34 at the edge: 256 bytes written and read back *)
C34_WitnessWholeBuffer ==
    /\ LastIs("in") /\ tc.last[1].before # None
    /\ tc.last[1].req.request = REQ_READ_BUFFER /\ tc.last[1].req.length = StateBufLen
    /\ tc.answer.tag = "Accepted" /\ tc.answer.data = tc.last[1].before[1]
    /\ Len(tc.answer.data) = StateBufLen

====
